---- MODULE Spec2Model ----
(***************************************************************************)
(* A model of the d3dcompiler loader: the PE image loader and its          *)
(* one-time initialisation (d3dcompiler/src/lib.rs), the import resolver   *)
(* and the handle tables of the kernel32 / advapi32 shims                  *)
(* (d3dcompiler/src/imports).                                              *)
(***************************************************************************)
EXTENDS Integers, Sequences, FiniteSets, TLC

(***************************************************************************)
(* State.                                                                  *)
(***************************************************************************)

\* The import resolver: one call of resolve_import.
VARIABLES
    rDll,        \* the module name passed
    rName,       \* the symbol name passed
    rAddr,       \* the address returned
    rPc          \* "call" before the call, "done" after it

\* The loader and the module state (d3dcompiler/src/lib.rs).
VARIABLES
    image,       \* the container file next to the executable
    State,       \* the OnceLock named STATE: OnceLock<Result<D3DCompilerState>>
    onceRunner,  \* the thread running the OnceLock's initialiser, 0 when none
    pc,          \* where each thread is
    tibInit,     \* TIB_INITIALIZED of each thread
    TIB,         \* the thread-local ThreadInformationBlock of each thread
    gs_base,     \* the GS base register of each thread
    prctls,      \* arch_prctl(ARCH_SET_GS) calls each thread has made
    depths,      \* how deep below its stack's top a thread's call can be
    fn,          \* the entry point each thread is calling
    seen,        \* what init() returned to each thread in its current call
    callee,      \* the function pointer each thread called into the image
    result,      \* the HRESULT each thread's last call returned
    ncalls,      \* entry-point calls made so far
    crashed,     \* the process has been aborted
    mem,         \* the bytes of the image mapping
    map_base,    \* the address of the mapping
    mapped,      \* the mapping exists
    exports,     \* load_dll's export table
    protCalls,   \* the mprotect calls made for sections
    headerProt,  \* the header has been made read-only
    reads,       \* times the container file has been read
    maps,        \* times an image mapping has been created
    attaches,    \* times the image's entry point has been called
    attachArgs,  \* the arguments of the last entry-point call
    loadRuns,    \* times load_dll has returned
    requests,    \* the calls the host program makes: entry point, input, include
    input,       \* the source or bytecode each thread's call passes
    pInclude,    \* the include handler each thread's call passes
    outNull,     \* the output parameters each thread's call passes as null
    wrapped_include, \* the include adapter of each thread's call
    forwarded,   \* the include pointer each thread gave the image's function
    code,        \* the entry point's local for the image's output object
    errors,      \* the entry point's local for the image's diagnostics
    ppCode,      \* what the host's output parameter holds after the call
    ppErrorMsgs, \* what the host's diagnostics parameter holds after the call
    boxed_includes, \* include adapters each thread's call has allocated
    freed_includes, \* include adapters each thread's call has dropped
    outcomes     \* what the completed calls returned, by what they passed

\* The handle tables of the shims (imports/kernel32.rs, imports/advapi32.rs).
VARIABLES
    NEXT_HANDLE,     \* static NEXT_HANDLE: AtomicU32
    HANDLE_MAP,      \* static HANDLE_MAP: handle -> file descriptor
    MMAP_MAP,        \* static MMAP_MAP: mapping handle -> (descriptor, size)
    TLS_NEXT,        \* static TLS_NEXT: AtomicU32
    TLS_SLOTS,       \* static TLS_SLOTS: slot -> pthread key
    CRYPTO_NEXT,     \* static CRYPTO_NEXT: AtomicU32
    CRYPTO_HANDLES,  \* static CRYPTO_HANDLES: handle -> HashContext
    openFds,         \* the file descriptors open in the process
    liveKeys,        \* the pthread keys created and not deleted
    hpc,             \* where each thread is inside a shim
    harg,            \* the handle a thread's shim call works on
    hloc,            \* the descriptor or key a thread's shim call holds
    lastOp,          \* the last shim call each thread completed
    nops,            \* shim calls made so far
    issued,          \* the values taken from each counter, in order
    returned,        \* the handles each kind of create call has returned
    closed           \* the handles a close/destroy call has completed on

\* The interface adapters the host holds (d3dcompiler_proc/src/lib.rs).
VARIABLES
    refcount,    \* the reference count the wrapped object keeps
    boxed,       \* the adapter's Box is allocated
    drops,       \* times the adapter's Box was dropped
    apc,         \* where each thread is inside an adapter method
    count,       \* the count the inner Release returned to each thread
    hostRefs,    \* references the host holds through the adapter
    refCalls,    \* the AddRef and Release calls made, with what they returned
    ppv,         \* what QueryInterface stored through the host's ppv
    nmethods     \* adapter methods called so far

\* The locks of the handle tables and the calls made under them
\* (imports/kernel32.rs, imports/advapi32.rs).
VARIABLES
    guards,      \* the RwLock guards alive on each table: <<thread, mode>>
    shimOp,      \* the shim each thread is in and whether its handle is known
    shimPc,      \* the step of the shim each thread is at, 0 outside a shim
    inSyscall,   \* the library or system call each thread is inside, "" if none
    nshims       \* shim calls made so far

\* The critical sections of the image (imports/kernel32.rs).
VARIABLES
    csOwner,     \* the thread that has locked each section's mutex, 0 if none
    csPc,        \* where each thread is: "out", "entering" a section, or "in"
    csArg,       \* the section a thread's EnterCriticalSection was called on
    csDepth,     \* EnterCriticalSection calls returned and not yet left
    ncs          \* critical-section calls made so far

\* The shims without an implementation (imports/kernel32.rs, imports/msvcrt.rs,
\* imports/ntdll.rs).
VARIABLES
    stName,      \* the shim the image is inside, "" when in none
    stArg,       \* the argument the image passed it
    stLog,       \* the shim calls that returned: shim, argument, value returned
    stEnded,     \* the process has ended
    views        \* the file views mapped into the process

\* One call of the printf-style formatter (imports/printf.rs).
VARIABLES
    fFormat,     \* the format string passed
    fCount,      \* the buffer size passed
    fNull,       \* the buffer pointer passed is null
    fOut,        \* what the call returned and did: value, buffer, bytes stored, arguments used
    fPc          \* "call" before the call, "done" after it

resolverVars == <<rDll, rName, rAddr, rPc>>

lockVars == <<guards, shimOp, shimPc, inSyscall, nshims>>

csVars == <<csOwner, csPc, csArg, csDepth, ncs>>

adapterVars == <<refcount, boxed, drops, apc, count, hostRefs, refCalls, ppv,
                 nmethods>>

tibVars == <<tibInit, TIB, gs_base, prctls, depths>>

threadVars == <<pc, tibVars, fn, seen, callee, result, ncalls>>

entryVars == <<requests, input, pInclude, outNull, wrapped_include, forwarded, code, errors,
               ppCode, ppErrorMsgs, boxed_includes, freed_includes, outcomes>>

loadVars == <<mem, map_base, mapped, exports, protCalls, headerProt, reads, maps,
              attaches, attachArgs, loadRuns>>

loaderVars == <<image, State, onceRunner, crashed, threadVars, loadVars, entryVars>>

tableVars == <<NEXT_HANDLE, HANDLE_MAP, MMAP_MAP, TLS_NEXT, TLS_SLOTS, CRYPTO_NEXT,
               CRYPTO_HANDLES, openFds, liveKeys>>

shimVars == <<hpc, harg, hloc, lastOp, nops, issued, returned, closed>>

handleVars == <<tableVars, shimVars>>

stubVars == <<stName, stArg, stLog, stEnded, views>>

printfVars == <<fFormat, fCount, fNull, fOut, fPc>>

vars == <<resolverVars, loaderVars, handleVars, adapterVars, lockVars, csVars, stubVars,
    printfVars>>

notResolverVars == <<loaderVars, handleVars, adapterVars, lockVars, csVars, stubVars,
    printfVars>>

notLoaderVars == <<resolverVars, handleVars, adapterVars, lockVars, csVars, stubVars,
    printfVars>>

notHandleVars == <<resolverVars, loaderVars, adapterVars, lockVars, csVars, stubVars,
    printfVars>>

notAdapterVars == <<resolverVars, loaderVars, handleVars, lockVars, csVars, stubVars,
    printfVars>>

notLockVars == <<resolverVars, loaderVars, handleVars, adapterVars, csVars, stubVars,
    printfVars>>

notCsVars == <<resolverVars, loaderVars, handleVars, adapterVars, lockVars, stubVars,
    printfVars>>

notStubVars == <<resolverVars, loaderVars, handleVars, adapterVars, lockVars, csVars,
    printfVars>>

notPrintfVars == <<resolverVars, loaderVars, handleVars, adapterVars, lockVars, csVars, stubVars>>

\* What a step of init or load_dll leaves alone outside the loader's state.
notLoadVars == <<notLoaderVars, entryVars>>

(***************************************************************************)
(* Import resolver: linux_loader::resolve_import and the per-family        *)
(* tables.  An address is modelled by a string: the path of the function   *)
(* whose address the match arm takes, or the literal of the default arm.   *)
(***************************************************************************)

\* The value of every default arm (`_ => 0xDEADBEEF`).
SENTINEL == "0xDEADBEEF"

\* The null pointer.
NULL == "0x0"

\* The match arms of resolve_msvcrt: the symbols with an implementation.
MsvcrtSymbols ==
    { "malloc", "free", "memcpy", "memcpy_s", "memmove", "memset", "memcmp",
      "_memicmp", "strlen", "strcmp", "strncmp", "strcpy_s", "strncpy_s",
      "strcat_s", "strchr", "strrchr", "strstr", "strnlen", "_strdup",
      "_stricmp", "_strnicmp", "tolower", "toupper", "towlower", "isalnum",
      "isalpha", "isdigit", "isspace", "isxdigit", "__isascii", "wcsncmp",
      "wcsncpy_s", "wcsncat_s", "wcscat_s", "wcscpy_s", "wcsrchr", "_wcsdup",
      "_wcsicmp", "_wcsnicmp", "_mbscmp", "_mbstrlen", "sprintf_s", "sscanf_s",
      "swprintf_s", "_vsnprintf", "_vsnwprintf", "_snwprintf_s", "fclose",
      "fread", "fseek", "ftell", "_wfsopen", "_fileno", "_filelengthi64",
      "_read", "_write", "_close", "_lseeki64", "_chsize_s", "_get_osfhandle",
      "_open_osfhandle", "acos", "asin", "atan", "atan2", "ceil", "cos", "cosh",
      "exp", "floor", "floorf", "fmod", "log", "modf", "pow", "sin", "sinh",
      "sqrt", "tan", "tanh", "_isnan", "_finite", "_fpclass", "_clearfp",
      "_controlfp", "atoi", "atof", "_atoi64", "strtod", "strtoul", "wcstoul",
      "_strtoui64", "qsort", "bsearch", "getenv", "_wgetenv", "setlocale",
      "_time64", "_errno", "_initterm", "_amsg_exit", "_purecall", "_onexit",
      "__dllonexit", "_lock", "_unlock", "_callnewh", "__C_specific_handler",
      "__CxxFrameHandler3", "_CxxThrowException", "?terminate@@YAXXZ",
      "??1type_info@@UEAA@XZ", "__unDName", "_XcptFilter", "_wfullpath",
      "_wmakepath_s", "_wsplitpath_s" }

\* The match arms of resolve_kernel32: the symbols with an implementation.
Kernel32Symbols ==
    { "VirtualAlloc", "VirtualFree", "GetProcessHeap", "HeapCreate",
      "HeapDestroy", "HeapAlloc", "HeapFree", "LocalAlloc", "LocalFree",
      "CreateFileW", "CreateFileA", "ReadFile", "WriteFile", "CloseHandle",
      "GetFileSize", "GetFileSizeEx", "GetFileType", "SetFilePointer",
      "SetFilePointerEx", "SetEndOfFile", "DeleteFileW", "GetFileAttributesW",
      "SetFileAttributesW", "GetFullPathNameW", "GetFullPathNameA",
      "CreateFileMappingW", "MapViewOfFile", "MapViewOfFileEx",
      "UnmapViewOfFile", "FlushViewOfFile", "DeviceIoControl",
      "InitializeCriticalSection", "InitializeCriticalSectionAndSpinCount",
      "DeleteCriticalSection", "EnterCriticalSection", "LeaveCriticalSection",
      "Sleep", "TlsAlloc", "TlsFree", "TlsGetValue", "TlsSetValue",
      "GetLastError", "SetLastError", "GetCurrentProcessId",
      "GetCurrentThreadId", "GetCurrentProcess", "GetTickCount",
      "QueryPerformanceCounter", "GetSystemTimeAsFileTime", "GetSystemInfo",
      "OutputDebugStringA", "DisableThreadLibraryCalls", "FreeLibrary",
      "LoadLibraryExW", "GetProcAddress", "GetModuleFileNameA",
      "GetEnvironmentVariableA", "ExpandEnvironmentStringsW",
      "MultiByteToWideChar", "WideCharToMultiByte", "LCMapStringW", "lstrcmpiA",
      "TerminateProcess", "UnhandledExceptionFilter",
      "SetUnhandledExceptionFilter", "IsDebuggerPresent",
      "IsProcessorFeaturePresent" }

\* The match arms of resolve_advapi32: the symbols with an implementation.
Advapi32Symbols ==
    { "RegOpenKeyExA", "RegOpenKeyExW", "RegQueryValueExA", "RegQueryValueExW",
      "RegEnumKeyExA", "RegCloseKey", "CryptAcquireContextW",
      "CryptReleaseContext", "CryptCreateHash", "CryptDestroyHash",
      "CryptHashData", "CryptGetHashParam" }

\* The match arms of resolve_ntdll: the symbols with an implementation.
NtdllSymbols ==
    { "RtlCaptureContext", "RtlLookupFunctionEntry", "RtlVirtualUnwind",
      "RtlUnwindEx" }

\* The match arms of resolve_rpcrt4: the symbols with an implementation.
Rpcrt4Symbols ==
    { "UuidCreate" }

\* The module names resolve_import sends to resolve_msvcrt.
MsvcrtModules ==
    { "msvcrt", "msvcr100", "msvcr110", "msvcr120", "vcruntime140", "ucrtbase",
      "api-ms-win-crt-runtime-l1-1-0", "api-ms-win-crt-heap-l1-1-0",
      "api-ms-win-crt-string-l1-1-0", "api-ms-win-crt-stdio-l1-1-0",
      "api-ms-win-crt-math-l1-1-0", "api-ms-win-crt-convert-l1-1-0",
      "api-ms-win-crt-utility-l1-1-0", "api-ms-win-crt-time-l1-1-0",
      "api-ms-win-crt-locale-l1-1-0", "api-ms-win-crt-environment-l1-1-0",
      "api-ms-win-crt-filesystem-l1-1-0", "api-ms-win-crt-private-l1-1-0" }

\* The module names resolve_import sends to resolve_kernel32.
Kernel32Modules ==
    { "kernel32", "api-ms-win-core-heap-l1-1-0", "api-ms-win-core-synch-l1-1-0",
      "api-ms-win-core-synch-l1-2-0", "api-ms-win-core-file-l1-1-0",
      "api-ms-win-core-file-l1-2-0", "api-ms-win-core-file-l2-1-0",
      "api-ms-win-core-processthreads-l1-1-0",
      "api-ms-win-core-processthreads-l1-1-1",
      "api-ms-win-core-libraryloader-l1-1-0",
      "api-ms-win-core-libraryloader-l1-2-0", "api-ms-win-core-memory-l1-1-0",
      "api-ms-win-core-localization-l1-2-0", "api-ms-win-core-sysinfo-l1-1-0",
      "api-ms-win-core-errorhandling-l1-1-0", "api-ms-win-core-profile-l1-1-0",
      "api-ms-win-core-string-l1-1-0", "api-ms-win-core-debug-l1-1-0",
      "api-ms-win-core-handle-l1-1-0", "api-ms-win-core-fibers-l1-1-0",
      "api-ms-win-core-fibers-l1-1-1" }

\* The module names resolve_import sends to resolve_advapi32.
Advapi32Modules ==
    { "advapi32", "api-ms-win-core-registry-l1-1-0",
      "api-ms-win-security-base-l1-1-0" }

\* Address of the function a match arm of resolve_msvcrt names.
MsvcrtFn(name) ==
    CASE name = "strlen" -> "libc::strlen"
      [] name = "?terminate@@YAXXZ" -> "imports::msvcrt::terminate"
      [] name = "??1type_info@@UEAA@XZ" -> "imports::msvcrt::type_info_dtor"
      [] OTHER -> "imports::msvcrt::" \o name

resolve_msvcrt(name) ==
    IF name \in MsvcrtSymbols THEN MsvcrtFn(name) ELSE SENTINEL

resolve_kernel32(name) ==
    IF name \in Kernel32Symbols THEN "imports::kernel32::" \o name ELSE SENTINEL

\* resolve_advapi32 with a default arm that yields a null pointer.
resolve_advapi32_NullDefault(name) ==
    IF name \in Advapi32Symbols THEN "imports::advapi32::" \o name ELSE NULL

resolve_advapi32(name) ==
    IF name \in Advapi32Symbols THEN "imports::advapi32::" \o name ELSE SENTINEL

resolve_ntdll(name) ==
    IF name \in NtdllSymbols THEN "imports::ntdll::" \o name ELSE SENTINEL

resolve_rpcrt4(name) ==
    IF name \in Rpcrt4Symbols THEN "imports::rpcrt4::" \o name ELSE SENTINEL

\* A trim that drops nothing.
trim_end_Nothing(s, pat) == s

\* str::trim_end_matches(pat): drops every trailing repetition of pat.
RECURSIVE trim_end_matches(_, _)
trim_end_matches(s, pat) ==
    IF /\ Len(pat) > 0
       /\ Len(s) >= Len(pat)
       /\ SubSeq(s, Len(s) - Len(pat) + 1, Len(s)) = pat
    THEN trim_end_matches(SubSeq(s, 1, Len(s) - Len(pat)), pat)
    ELSE s

resolve_import(dll, name) ==
    LET dll_base == trim_end_matches(dll, ".dll") IN
    CASE dll_base \in MsvcrtModules -> resolve_msvcrt(name)
      [] dll_base \in Kernel32Modules -> resolve_kernel32(name)
      [] dll_base \in Advapi32Modules -> resolve_advapi32(name)
      [] dll_base = "ntdll" -> resolve_ntdll(name)
      [] dll_base = "rpcrt4" -> resolve_rpcrt4(name)
      [] OTHER -> SENTINEL

\* Every address that is the address of an implemented shim.
ShimAddresses ==
    {MsvcrtFn(n) : n \in MsvcrtSymbols}
        \cup {"imports::kernel32::" \o n : n \in Kernel32Symbols}
        \cup {"imports::advapi32::" \o n : n \in Advapi32Symbols}
        \cup {"imports::ntdll::" \o n : n \in NtdllSymbols}
        \cup {"imports::rpcrt4::" \o n : n \in Rpcrt4Symbols}

(***************************************************************************)
(* Inputs of the resolver: module names as an import descriptor may spell  *)
(* them, symbol names as a hint/name entry may spell them.                 *)
(***************************************************************************)

\* How many ".dll" suffixes an input module name carries at most.
MaxDllSuffix == 2

RECURSIVE WithSuffix(_, _)
WithSuffix(s, n) == IF n = 0 THEN s ELSE WithSuffix(s, n - 1) \o ".dll"

KnownModules ==
    MsvcrtModules \cup Kernel32Modules \cup Advapi32Modules \cup {"ntdll", "rpcrt4"}

UnknownModules ==
    { "", "user32", "d3d11", "KERNEL32", "Kernel32", "kernel32.dl", "kernel33",
      "api-ms-win-core-heap-l1-1-1", "api-ms-win-crt-conio-l1-1-0", "ntdll.sys" }

ModuleInputs ==
    {WithSuffix(m, n) : m \in KnownModules \cup UnknownModules, n \in 0..MaxDllSuffix}

UnknownSymbols ==
    { "", "NoSuchSymbol", "Malloc", "malloc_", "closehandle", "HeapReAlloc",
      "CryptGenRandom", "RtlPcToFileHeader", "UuidCreateSequential" }

SymbolInputs ==
    MsvcrtSymbols \cup Kernel32Symbols \cup Advapi32Symbols \cup NtdllSymbols
        \cup Rpcrt4Symbols \cup UnknownSymbols

\* A request is chosen; nothing has been resolved yet.
ResolverInit ==
    /\ rDll \in ModuleInputs
    /\ rName \in SymbolInputs
    /\ rAddr = NULL
    /\ rPc = "call"

\* The resolver is not part of the run.
ResolverIdle ==
    /\ rDll = ""
    /\ rName = ""
    /\ rAddr = NULL
    /\ rPc = "off"

\* One call of resolve_import(dll, name).
ResolveImport ==
    /\ rPc = "call"
    /\ UNCHANGED notResolverVars
    /\ rAddr' = resolve_import(rDll, rName)
    /\ rPc' = "done"
    /\ UNCHANGED <<rDll, rName>>

(***************************************************************************)
(* The container image and the loader: linux_loader::load_dll.             *)
(* Memory is modelled byte by byte; a byte records what was written to it. *)
(* Addresses are AddrBits wide (the code's are 64 bits wide) and           *)
(* arithmetic on them wraps as u64 arithmetic does.                        *)
(***************************************************************************)

\* Width of an address in the model.
AddrBits == 8

AddrMod == 2 ^ AddrBits

\* Bytes of a pointer: the `+ 8` of the relocation and import-slot writes.
PtrSize == 8

IMAGE_REL_BASED_DIR64 == 10

\* Relocation types other than the 64-bit one: ABSOLUTE (padding) and HIGHLOW.
OtherRelocTypes == {0, 3}

DLL_PROCESS_ATTACH == 1

S_OK == 0

E_FAIL == -2147467259

\* The exports load_dll asks get_fn for, in the order it asks.
RequiredExports ==
    << "D3DCompile", "D3DCompile2", "D3DCompileFromFile", "D3DPreprocess",
       "D3DDisassemble", "D3DCreateBlob", "D3DReflect", "D3DStripShader",
       "D3DGetBlobPart", "D3DSetBlobPart" >>

RequiredExportNames == {RequiredExports[i] : i \in DOMAIN RequiredExports}

\* The preferred base of the images of the model.
PreferredBase == 16

\* Addresses the anonymous mmap may return.
MapBases == {64, 128, 250}

\* A byte of the mapping.
Cell(kind, i, val, fnaddr) == [kind |-> kind, i |-> i, val |-> val, fn |-> fnaddr]

\* mmap(MAP_ANONYMOUS) yields zero bytes.
ZeroCell == Cell("zero", 0, 0, "")

\* u64::to_le_bytes of a relocated address.
RelocBytes(v) == [k \in 1..PtrSize |-> Cell("rel", k - 1, v, "")]

\* usize::to_le_bytes of a resolved import address.
ImportBytes(fnaddr) == [k \in 1..PtrSize |-> Cell("imp", k - 1, 0, fnaddr)]

\* mmap[off..off + len].copy_from_slice(bytes)
copy_from_slice(m, off, bytes) ==
    [b \in DOMAIN m |->
        IF b >= off /\ b < off + Len(bytes) THEN bytes[b - off + 1] ELSE m[b]]

\* Copy header: mmap[0..header_size].copy_from_slice(&dll[0..header_size])
CopyHeader(img, m) ==
    copy_from_slice(m, 0, [k \in 1..img.size_of_headers |-> Cell("hdr", k - 1, 0, "")])

\* A section copy without the test against the length of the mapping: the
\* bytes of a section that lie inside the mapping are written.
RECURSIVE CopySections_Unguarded(_, _, _)
CopySections_Unguarded(img, m, n) ==
    IF n > Len(img.sections) THEN m
    ELSE LET section == img.sections[n]
             offset == section.address - img.image_base
             data == [k \in 1..section.len |-> Cell("sec", k - 1, n, "")]
         IN  IF section.data_ok
             THEN CopySections_Unguarded(img, copy_from_slice(m, offset, data), n + 1)
             ELSE CopySections_Unguarded(img, m, n + 1)

\* Copy sections: each section whose data reads and fits is copied to
\* address - image_base; the others are skipped.
RECURSIVE CopySections(_, _, _)
CopySections(img, m, n) ==
    IF n > Len(img.sections) THEN m
    ELSE LET section == img.sections[n]
             offset == section.address - img.image_base
             data == [k \in 1..section.len |-> Cell("sec", k - 1, n, "")]
         IN  IF section.data_ok /\ offset + Len(data) <= img.size_of_image
             THEN CopySections(img, copy_from_slice(m, offset, data), n + 1)
             ELSE CopySections(img, m, n + 1)

\* new_addr computed with the two bases exchanged.
NewAddrSwapped(addend, image_base, base) ==
    (addend - base + image_base) % AddrMod

\* new_addr = addend - image_base + map_base, in wrapping arithmetic.
NewAddr(addend, image_base, base) ==
    (addend - image_base + base) % AddrMod

\* The subtraction or the addition of new_addr leaves the range of an
\* address: a build with overflow checks panics there, one without wraps.
Overflows(addend, image_base, base) ==
    \/ addend < image_base
    \/ addend - image_base + base >= AddrMod

\* A relocation step that patches entries of every kind.
ApplyReloc_AnyKind(img, m, base, reloc) ==
    IF reloc.addend_ok /\ reloc.virtual_address + PtrSize <= img.size_of_image
    THEN copy_from_slice(m, reloc.virtual_address,
                         RelocBytes(NewAddr(reloc.addend, img.image_base, base)))
    ELSE m

\* One relocation entry: only IMAGE_REL_BASED_DIR64 with a readable addend
\* and a target inside the mapping is patched.
ApplyReloc(img, m, base, reloc) ==
    IF reloc.typ = IMAGE_REL_BASED_DIR64 /\ reloc.addend_ok
    THEN LET target == reloc.virtual_address IN
         IF target + PtrSize <= img.size_of_image
         THEN copy_from_slice(m, target,
                              RelocBytes(NewAddr(reloc.addend, img.image_base, base)))
         ELSE m
    ELSE m

RECURSIVE ApplyBlock(_, _, _, _, _)
ApplyBlock(img, m, base, block, n) ==
    IF n > Len(block) THEN m
    ELSE ApplyBlock(img, ApplyReloc(img, m, base, block[n]), base, block, n + 1)

\* Apply relocations: every block, every entry of it, in order.
RECURSIVE ApplyRelocations(_, _, _, _)
ApplyRelocations(img, m, base, n) ==
    IF n > Len(img.reloc_blocks) THEN m
    ELSE ApplyRelocations(img, ApplyBlock(img, m, base, img.reloc_blocks[n], 1),
                          base, n + 1)

\* Some entry that is patched overflows.
RelocationOverflows(img, base) ==
    \E n \in DOMAIN img.reloc_blocks :
        \E e \in DOMAIN img.reloc_blocks[n] :
            LET reloc == img.reloc_blocks[n][e] IN
            /\ reloc.typ = IMAGE_REL_BASED_DIR64
            /\ reloc.addend_ok
            /\ reloc.virtual_address + PtrSize <= img.size_of_image
            /\ Overflows(reloc.addend, img.image_base, base)

UpperCase == "ABCDEFGHIJKLMNOPQRSTUVWXYZ"

LowerCase == "abcdefghijklmnopqrstuvwxyz"

LowerChar(c) ==
    IF \E i \in 1..Len(UpperCase) : SubSeq(UpperCase, i, i) = c
    THEN LET i == CHOOSE j \in 1..Len(UpperCase) : SubSeq(UpperCase, j, j) = c
         IN  SubSeq(LowerCase, i, i)
    ELSE c

\* str::to_lowercase on the ASCII names of an import table.
RECURSIVE to_lowercase(_)
to_lowercase(s) ==
    IF Len(s) = 0 THEN s
    ELSE LowerChar(SubSeq(s, 1, 1)) \o to_lowercase(SubSeq(s, 2, Len(s)))

\* The DLL name of a descriptor: lower-cased, or empty when it cannot be read.
DllName(desc) == IF desc.name_ok THEN to_lowercase(desc.name) ELSE ""

\* The thunks of one descriptor: a thunk with a hint/name entry has its slot
\* written when the slot lies inside the mapping; the slot address advances
\* by 8 for every thunk.
RECURSIVE FixupThunks(_, _, _, _, _)
FixupThunks(img, m, desc, address, n) ==
    IF n > Len(desc.thunks) THEN m
    ELSE LET thunk == desc.thunks[n]
             fn_addr == resolve_import(DllName(desc), thunk.name)
             written ==
                 IF thunk.named /\ address + PtrSize <= img.size_of_image
                 THEN copy_from_slice(m, address, ImportBytes(fn_addr))
                 ELSE m
         IN  FixupThunks(img, written, desc, address + PtrSize, n + 1)

\* Fix up imports: every descriptor whose thunk list reads.
RECURSIVE FixupImports(_, _, _)
FixupImports(img, m, n) ==
    IF n > Len(img.imports) THEN m
    ELSE LET desc == img.imports[n] IN
         IF desc.thunks_ok
         THEN FixupImports(img, FixupThunks(img, m, desc, desc.first_thunk, 1), n + 1)
         ELSE FixupImports(img, m, n + 1)

\* Build export table: name -> address - image_base + map_base.
BuildExports(img, base) ==
    [name \in {e.name : e \in img.exports} |->
        LET e == CHOOSE x \in img.exports : x.name = name
        IN  (e.address - img.image_base + base) % AddrMod]

\* The mprotect permissions of a section's characteristics.
Permissions(characteristics) ==
    characteristics \cap {"READ", "WRITE", "EXEC"}

\* Fix section permissions: one mprotect per section whose data reads.
RECURSIVE FixPermissions(_, _, _)
FixPermissions(img, calls, n) ==
    IF n > Len(img.sections) THEN calls
    ELSE LET section == img.sections[n] IN
         IF section.data_ok
         THEN FixPermissions(img,
                  Append(calls, [offset |-> section.address - img.image_base,
                                 size |-> section.len,
                                 permissions |-> Permissions(section.characteristics)]),
                  n + 1)
         ELSE FixPermissions(img, calls, n + 1)

\* The first required export the table lacks, or "" when none is missing.
RECURSIVE FirstMissing(_, _)
FirstMissing(table, n) ==
    IF n > Len(RequiredExports) THEN ""
    ELSE IF RequiredExports[n] \in DOMAIN table THEN FirstMissing(table, n + 1)
         ELSE RequiredExports[n]

NoFns == [name \in {} |-> 0]

\* State before initialisation: the empty OnceLock.
Uninit == [tag |-> "uninit", err |-> "", what |-> "", mmap |-> 0, mmap_size |-> 0,
           fns |-> NoFns]

\* Err(D3DCompilerError::<err>(what))
Err(err, what) == [tag |-> "err", err |-> err, what |-> what, mmap |-> 0,
                   mmap_size |-> 0, fns |-> NoFns]

\* Ok(D3DCompilerState { .. })
Ok(base, size, table) ==
    [tag |-> "ok", err |-> "", what |-> "", mmap |-> base, mmap_size |-> size,
     fns |-> [name \in RequiredExportNames |-> table[name]]]

\* A construction that stores a null pointer for an export that is absent.
GetFnsNullMissing(img, base, table) ==
    [tag |-> "ok", err |-> "", what |-> "", mmap |-> base,
     mmap_size |-> img.size_of_image,
     fns |-> [name \in RequiredExportNames |->
                IF name \in DOMAIN table THEN table[name] ELSE 0]]

\* The D3DCompilerState construction at the end of load_dll: the first `?` that
\* fails returns the error.
GetFns(img, base, table) ==
    IF FirstMissing(table, 1) = ""
    THEN Ok(base, img.size_of_image, table)
    ELSE Err("FunctionNotFound", FirstMissing(table, 1))

(***************************************************************************)
(* The images of the model.  Every image is the base image with one part   *)
(* replaced: its relocation blocks, its import table, its export table,    *)
(* its size, its entry point, or the file itself.                          *)
(***************************************************************************)

\* Entries of one relocation table at most.
MaxRelocs == 2

\* Thunks of one import descriptor at most.
MaxThunks == 2

Export(name, rva) == [name |-> name, address |-> PreferredBase + rva]

AllExports == {Export(RequiredExports[i], 8) : i \in DOMAIN RequiredExports}

BaseSections ==
    << [address |-> PreferredBase + 8, len |-> 8, data_ok |-> TRUE,
        characteristics |-> {"CODE", "READ", "EXEC"}],
       [address |-> PreferredBase + 16, len |-> 40, data_ok |-> TRUE,
        characteristics |-> {"DATA", "READ", "WRITE"}] >>

Reloc(typ, rva, addend) ==
    [typ |-> typ, virtual_address |-> rva, addend_ok |-> TRUE, addend |-> addend]

\* Relocation entries.  The addend of an entry is what the file holds at the
\* entry's address, so entries of one address have one addend.  64-bit ones:
\* one pointing at the preferred base itself, one above it, one whose value
\* lies below the preferred base, one whose target crosses the end of the
\* mapping, one whose addend cannot be read; and entries of ignored kinds.
RelocPool ==
    { Reloc(IMAGE_REL_BASED_DIR64, 16, PreferredBase),
      Reloc(IMAGE_REL_BASED_DIR64, 24, PreferredBase + 8),
      Reloc(IMAGE_REL_BASED_DIR64, 32, 3),
      Reloc(IMAGE_REL_BASED_DIR64, 49, PreferredBase),
      [Reloc(IMAGE_REL_BASED_DIR64, 8, 0) EXCEPT !.addend_ok = FALSE] }
        \cup {Reloc(typ, 16, PreferredBase) : typ \in OtherRelocTypes}

SeqsUpTo(S, n) == UNION {[1..k -> S] : k \in 0..n}

\* A relocation table: its first entry is one block, the rest another.
Blocks(entries) ==
    IF Len(entries) <= 1 THEN <<entries>>
    ELSE << <<entries[1]>>, SubSeq(entries, 2, Len(entries)) >>

RelocTables == {Blocks(es) : es \in SeqsUpTo(RelocPool, MaxRelocs)} \cup {<< >>}

Thunk(named, name) == [named |-> named, name |-> name]

\* Thunks: by name (implemented or not) and by ordinal (no hint/name entry).
ThunkPool ==
    { Thunk(TRUE, "CloseHandle"), Thunk(TRUE, "NoSuchSymbol"), Thunk(FALSE, "") }

Descriptor(name, first_thunk, thunks) ==
    [name |-> name, name_ok |-> TRUE, first_thunk |-> first_thunk,
     thunks_ok |-> TRUE, thunks |-> thunks]

\* Import tables: one descriptor of the pool's thunks whose slots start at 48
\* (the second slot lies beyond the mapping), and tables of several
\* descriptors, of an unknown module, of descriptors that do not read.
ImportTables ==
    {<<Descriptor("KERNEL32.dll", 48, ts)>> : ts \in SeqsUpTo(ThunkPool, MaxThunks)}
        \cup
    { << >>,
      << Descriptor("api-ms-win-crt-heap-l1-1-0.dll", 40, <<Thunk(TRUE, "malloc")>>),
         Descriptor("USER32.dll", 48, <<Thunk(TRUE, "MessageBoxA")>>) >>,
      << [Descriptor("kernel32.dll", 40, <<Thunk(TRUE, "HeapAlloc")>>)
             EXCEPT !.thunks_ok = FALSE],
         [Descriptor("kernel32.dll", 48, <<Thunk(TRUE, "HeapFree")>>)
             EXCEPT !.name_ok = FALSE] >> }

BaseImage ==
    [ readable |-> TRUE, parse_ok |-> TRUE,
      size_of_image |-> 56, size_of_headers |-> 4,
      image_base |-> PreferredBase, entry_rva |-> 8,
      sections |-> BaseSections,
      reloc_blocks |-> << <<Reloc(IMAGE_REL_BASED_DIR64, 16, PreferredBase)>> >>,
      imports |-> << Descriptor("KERNEL32.dll", 40,
                                <<Thunk(TRUE, "CloseHandle"), Thunk(TRUE, "NoSuchSymbol")>>) >>,
      exports |-> AllExports ]

\* Images that differ in how far initialisation gets: the base image, a file
\* that cannot be read, a malformed container, an image without an entry
\* point, an image with a relocation value below its preferred base, images
\* that lack a required export.
CoreImages ==
    { BaseImage,
      [BaseImage EXCEPT !.reloc_blocks =
                            << <<Reloc(IMAGE_REL_BASED_DIR64, 32, 3)>> >>],
      [BaseImage EXCEPT !.readable = FALSE],
      [BaseImage EXCEPT !.parse_ok = FALSE],
      [BaseImage EXCEPT !.entry_rva = 0],
      [BaseImage EXCEPT !.exports = {e \in AllExports : e.name # "D3DReflect"}],
      [BaseImage EXCEPT !.exports = {e \in AllExports :
                                        e.name \notin {"D3DCompile2", "D3DSetBlobPart"}}] }

\* A container file that loads, or panics on its relocation in a build with
\* overflow checks, and one that lacks a required export.
EntryImages ==
    { [BaseImage EXCEPT !.reloc_blocks =
                            << <<Reloc(IMAGE_REL_BASED_DIR64, 32, 3)>> >>],
      [BaseImage EXCEPT !.exports = {e \in AllExports : e.name # "D3DReflect"}] }

Images ==
    CoreImages
        \cup {[BaseImage EXCEPT !.reloc_blocks = r] : r \in RelocTables}
        \cup {[BaseImage EXCEPT !.imports = i] : i \in ImportTables}
        \cup {[BaseImage EXCEPT !.size_of_image = 52],
              [BaseImage EXCEPT !.sections[1].data_ok = FALSE]}

\* Images with an item that crosses the end of the mapping before one that
\* fits: a section, a relocation entry, an import slot; the image whose
\* mapping ends inside its second section; a section that starts behind the
\* end of the mapping.
EdgeImages ==
    { [BaseImage EXCEPT !.sections =
          << [address |-> PreferredBase + 40, len |-> 24, data_ok |-> TRUE,
              characteristics |-> {"DATA", "READ"}],
             BaseSections[1] >>],
      [BaseImage EXCEPT !.sections =
          << [address |-> PreferredBase + 60, len |-> 8, data_ok |-> TRUE,
              characteristics |-> {"DATA", "READ"}],
             BaseSections[2] >>],
      [BaseImage EXCEPT !.reloc_blocks =
          << <<Reloc(IMAGE_REL_BASED_DIR64, 49, PreferredBase)>>,
             <<Reloc(IMAGE_REL_BASED_DIR64, 16, PreferredBase)>> >>],
      [BaseImage EXCEPT !.imports =
          << Descriptor("KERNEL32.dll", 48,
                        <<Thunk(TRUE, "CloseHandle"), Thunk(TRUE, "HeapAlloc")>>),
             Descriptor("msvcrt.dll", 32, <<Thunk(TRUE, "malloc")>>) >>],
      [BaseImage EXCEPT !.size_of_image = 52] }
(***************************************************************************)
(* Interface pointers and the adapters around them (com_wrapper!,          *)
(* wrap_include).                                                          *)
(***************************************************************************)

\* A null interface pointer.
NullPtr == [abi |-> "null", vtable |-> "", obj |-> ""]

\* A pointer to an object of the image, called with the image's convention.
Win64Object(obj) == [abi |-> "win64", vtable |-> "", obj |-> obj]

\* A pointer to an object of the host, called with the host's convention.
HostObject(obj) == [abi |-> "C", vtable |-> "", obj |-> obj]

\* A wrap with its null test inverted.
wrap_Inverted(vtable, inner) ==
    IF inner # NullPtr THEN NullPtr
    ELSE [abi |-> "C", vtable |-> vtable, obj |-> inner.obj]

\* wrap_<name> as com_wrapper! generates it: null stays null, anything else
\* is boxed with the adapter's table of host-convention thunks.
wrap(vtable, inner) ==
    IF inner = NullPtr THEN NullPtr
    ELSE [abi |-> "C", vtable |-> vtable, obj |-> inner.obj]

\* A wrap_blob that hands the image's pointer on as it is.
wrap_blob_Raw(inner) == inner

wrap_blob(inner) == wrap("BlobWrapper", inner)

wrap_reflection(inner) == wrap("ReflectionWrapper", inner)

\* wrap_include: null stays null, anything else is boxed with the table of
\* image-convention thunks.
wrap_include(inner) ==
    IF inner = NullPtr THEN NullPtr
    ELSE [abi |-> "win64", vtable |-> "INCLUDE_WRAPPER_VTABLE", obj |-> inner.obj]

\* The pointer is an adapter the host can call.
IsHostAdapter(p) == p.abi = "C" /\ p.vtable # ""

(***************************************************************************)
(* Module state and the exported entry points: State, init and the         *)
(* threads that call the entry points.                                     *)
(***************************************************************************)

\* Threads that call entry points.
NThreads == 2

\* Entry-point calls of one run at most.
MaxCalls == 2

\* The entry points the threads of the model call.
CalledEntryPoints == {"D3DCompile", "D3DReflect"}

\* The entry points that take an include handler.
IncludeEntryPoints ==
    {"D3DCompile", "D3DCompile2", "D3DCompileFromFile", "D3DPreprocess"}

\* What the host passes as source or bytecode: something the image's
\* function accepts, or something it rejects.
Inputs == {"valid", "bad"}

\* What the host passes as include handler.
IncludeArgs(f) ==
    IF f \in IncludeEntryPoints THEN {NullPtr, HostObject("include")}
    ELSE {NullPtr}

\* The calls a host can make.
Requests ==
    {r \in [fn : CalledEntryPoints, input : Inputs,
            pInclude : {NullPtr, HostObject("include")}, nullOuts : {{}}] :
        r.pInclude \in IncludeArgs(r.fn)}

\* The output parameters of an entry point: D3DCompile has ppCode and
\* ppErrorMsgs, the others one.
OutParams(f) == IF f = "D3DCompile" THEN {"ppCode", "ppErrorMsgs"} ELSE {"ppCode"}

\* The calls of a host that passes no include handler and passes null for
\* some of the output parameters, or for none.
OutRequests ==
    {r \in [fn : CalledEntryPoints, input : Inputs, pInclude : {NullPtr},
            nullOuts : SUBSET {"ppCode", "ppErrorMsgs"}] :
        r.nullOuts \subseteq OutParams(r.fn)}

\* The calls of a host that passes no include handler.
PlainRequests == {r \in Requests : r.pInclude = NullPtr}

\* What the image's function does with an input: its status, the object it
\* stores through its output parameter and the diagnostics it stores.
Foreign(f, in) ==
    CASE f = "D3DCompile" /\ in = "valid" ->
            [status |-> S_OK, code |-> Win64Object("DXBC:main:ps_5_0"),
             errors |-> NullPtr]
      [] f = "D3DCompile" /\ in = "bad" ->
            [status |-> E_FAIL, code |-> NullPtr,
             errors |-> Win64Object("error X3004: undeclared identifier")]
      [] f = "D3DReflect" /\ in = "valid" ->
            [status |-> S_OK, code |-> Win64Object("reflection"),
             errors |-> NullPtr]
      [] OTHER ->
            [status |-> E_FAIL, code |-> NullPtr, errors |-> NullPtr]

\* What an output local can hold after the image's function was given its
\* address: the object stored, and when the function has none to store,
\* null or what the local held before.
Stored(local, object) ==
    IF object # NullPtr THEN {object} ELSE {NullPtr, local}

\* let mut code = ptr::null_mut(); let mut errors = ptr::null_mut()
LocalInit(old) == NullPtr

\* A free_include_wrapper that drops nothing.
free_include_wrapper_Leak(wrapper) == 0

\* free_include_wrapper: the Boxes it drops.
free_include_wrapper(wrapper) == IF wrapper # NullPtr THEN 1 ELSE 0

\* The adapter an entry point stores through its output parameter.
WrapOutput(f, object) ==
    IF f = "D3DReflect" THEN wrap_reflection(object) ELSE wrap_blob(object)

NoMem == [b \in {} |-> ZeroCell]

NoArgs == [hinst |-> 0, fdw_reason |-> 0]

\* The thread-local TIB static before setup_tib has run.
ZeroTib ==
    [exception_list |-> 0, stack_base |-> 0, stack_limit |-> 0,
     sub_system_tib |-> 0, fiber_data |-> 0, arbitrary_user_pointer |-> 0,
     teb_self |-> 0, environment_pointer |-> 0, process_id |-> 0,
     thread_id |-> 0]

\* The state of the process before any entry point is called, with the given
\* threads, one of the given container files and a host that makes the given
\* calls.
LoaderInit(threads, images, reqs, frames) ==
    /\ image \in images
    /\ requests = reqs
    /\ State = Uninit
    /\ onceRunner = 0
    /\ pc = [t \in threads |-> "idle"]
    /\ tibInit = [t \in threads |-> FALSE]
    /\ TIB = [t \in threads |-> ZeroTib]
    /\ gs_base = [t \in threads |-> 0]
    /\ prctls = [t \in threads |-> 0]
    /\ depths = frames
    /\ fn = [t \in threads |-> ""]
    /\ seen = [t \in threads |-> Uninit]
    /\ callee = [t \in threads |-> 0]
    /\ result = [t \in threads |-> S_OK]
    /\ ncalls = 0
    /\ crashed = FALSE
    /\ mem = NoMem
    /\ map_base = 0
    /\ mapped = FALSE
    /\ exports = NoFns
    /\ protCalls = << >>
    /\ headerProt = FALSE
    /\ reads = 0
    /\ maps = 0
    /\ attaches = 0
    /\ attachArgs = NoArgs
    /\ loadRuns = 0
    /\ input = [t \in threads |-> ""]
    /\ pInclude = [t \in threads |-> NullPtr]
    /\ outNull = [t \in threads |-> {}]
    /\ wrapped_include = [t \in threads |-> NullPtr]
    /\ forwarded = [t \in threads |-> NullPtr]
    /\ code = [t \in threads |-> NullPtr]
    /\ errors = [t \in threads |-> NullPtr]
    /\ ppCode = [t \in threads |-> NullPtr]
    /\ ppErrorMsgs = [t \in threads |-> NullPtr]
    /\ boxed_includes = [t \in threads |-> 0]
    /\ freed_includes = [t \in threads |-> 0]
    /\ outcomes = {}

\* The process runs and thread t is at the given place.
At(t, place) == t \in DOMAIN pc /\ ~crashed /\ pc[t] = place

\* A thread enters an exported entry point.
Call(t) ==
    /\ At(t, "idle")
    /\ UNCHANGED notLoaderVars
    /\ ncalls < MaxCalls
    /\ \E r \in requests :
        /\ fn' = [fn EXCEPT ![t] = r.fn]
        /\ input' = [input EXCEPT ![t] = r.input]
        /\ pInclude' = [pInclude EXCEPT ![t] = r.pInclude]
        /\ outNull' = [outNull EXCEPT ![t] = r.nullOuts]
        /\ wrapped_include' =
              [wrapped_include EXCEPT ![t] = wrap_include(r.pInclude)]
        /\ boxed_includes' =
              [boxed_includes EXCEPT
                 ![t] = IF wrap_include(r.pInclude) # NullPtr THEN 1 ELSE 0]
    /\ freed_includes' = [freed_includes EXCEPT ![t] = 0]
    /\ forwarded' = [forwarded EXCEPT ![t] = NullPtr]
    /\ code' = [code EXCEPT ![t] = LocalInit(code[t])]
    /\ errors' = [errors EXCEPT ![t] = LocalInit(errors[t])]
    /\ pc' = [pc EXCEPT ![t] = "init"]
    /\ seen' = [seen EXCEPT ![t] = Uninit]
    /\ callee' = [callee EXCEPT ![t] = 0]
    /\ ncalls' = ncalls + 1
    /\ UNCHANGED <<image, State, onceRunner, crashed, tibVars, result, loadVars,
                   requests, ppCode, ppErrorMsgs, outcomes>>

\* setup_tib: the 8MB stack size estimate 0x800000 and the page mask !0xFFF
StackReach == 8388608
PageSize == 4096

\* setup_tib: (stack_ptr + 0x800000) & !0xFFF and (stack_ptr - 0x800000) & !0xFFF
AlignDown(a) == a - (a % PageSize)

\* The top of each thread's stack and the address of its thread-local TIB.
StackTop(t) == 2130706432 - t * 33554432
tib_ptr(t) == 1879048192 + t * PageSize

\* std::process::id() and gettid: the first thread's id is the process's.
process_id == 4242
gettid(t) == process_id + t - 1

\* A setup_tib with no guard flag: every call writes the block and the register.
setup_tib_Unguarded(t, stack_ptr) ==
    /\ TIB' = [TIB EXCEPT ![t] =
                 [@ EXCEPT !.stack_base = AlignDown(stack_ptr + StackReach),
                           !.stack_limit = AlignDown(stack_ptr - StackReach),
                           !.teb_self = tib_ptr(t),
                           !.process_id = process_id,
                           !.thread_id = gettid(t)]]
    /\ gs_base' = [gs_base EXCEPT ![t] = tib_ptr(t)]
    /\ prctls' = [prctls EXCEPT ![t] = @ + 1]
    /\ tibInit' = [tibInit EXCEPT ![t] = TRUE]

\* A setup_tib whose flag is one static for the process, not one per thread.
setup_tib_ProcessFlag(t, stack_ptr) ==
    IF \E u \in DOMAIN tibInit : tibInit[u]
    THEN UNCHANGED <<tibInit, TIB, gs_base, prctls>>
    ELSE setup_tib_Unguarded(t, stack_ptr)

\* setup_tib: a thread whose flag is set returns at once; otherwise the thread
\* fills its own block from the address of a local, points GS at the block
\* and sets its flag.
setup_tib(t, stack_ptr) ==
    IF tibInit[t]
    THEN UNCHANGED <<tibInit, TIB, gs_base, prctls>>
    ELSE /\ TIB' = [TIB EXCEPT ![t] =
                      [@ EXCEPT !.stack_base = AlignDown(stack_ptr + StackReach),
                                !.stack_limit = AlignDown(stack_ptr - StackReach),
                                !.teb_self = tib_ptr(t),
                                !.process_id = process_id,
                                !.thread_id = gettid(t)]]
         /\ gs_base' = [gs_base EXCEPT ![t] = tib_ptr(t)]
         /\ prctls' = [prctls EXCEPT ![t] = @ + 1]
         /\ tibInit' = [tibInit EXCEPT ![t] = TRUE]

\* init: setup_tib()
SetupTib(t) ==
    /\ At(t, "init")
    /\ UNCHANGED notLoadVars
    /\ \E d \in depths : setup_tib(t, StackTop(t) - d)
    /\ UNCHANGED depths
    /\ pc' = [pc EXCEPT ![t] = "get_or_init"]
    /\ UNCHANGED <<image, State, onceRunner, crashed, fn, seen, callee, result,
                   ncalls, loadVars>>

\* An initialiser that runs whenever the cell is empty, whoever else runs it.
OnceEntryUnguarded(state, runner) ==
    IF state.tag = "uninit" THEN "run" ELSE "get"

\* An initialiser that runs again when the stored outcome is an error.
OnceEntryRetry(state, runner) ==
    CASE state.tag = "ok" -> "get"
      [] runner = 0 -> "run"
      [] OTHER -> "wait"

\* OnceLock::get_or_init: a set cell is read; an empty cell is initialised by
\* the first caller, and the callers that come while it runs wait.
OnceEntry(state, runner) ==
    CASE state.tag # "uninit" -> "get"
      [] runner = 0 -> "run"
      [] OTHER -> "wait"

\* init: State.get_or_init(load_dll), the cell being set
GetOrInitGet(t) ==
    /\ At(t, "get_or_init")
    /\ UNCHANGED notLoadVars
    /\ OnceEntry(State, onceRunner) = "get"
    /\ seen' = [seen EXCEPT ![t] = State]
    /\ pc' = [pc EXCEPT ![t] = "dispatch"]
    /\ UNCHANGED <<image, State, onceRunner, crashed, tibVars, fn, callee, result,
                   ncalls, loadVars>>

\* init: State.get_or_init(load_dll), this thread running load_dll
GetOrInitRun(t) ==
    /\ At(t, "get_or_init")
    /\ UNCHANGED notLoadVars
    /\ OnceEntry(State, onceRunner) = "run"
    /\ onceRunner' = t
    /\ pc' = [pc EXCEPT ![t] = "ld_read"]
    /\ UNCHANGED <<image, State, crashed, tibVars, fn, seen, callee, result,
                   ncalls, loadVars>>

\* load_dll returns: the OnceLock stores the outcome and hands it to the caller.
Finish(t, outcome) ==
    /\ State' = outcome
    /\ onceRunner' = 0
    /\ loadRuns' = loadRuns + 1
    /\ seen' = [seen EXCEPT ![t] = outcome]
    /\ pc' = [pc EXCEPT ![t] = "dispatch"]

\* load_dll: std::fs::read(get_dll_path())?
LoadRead(t) ==
    /\ At(t, "ld_read")
    /\ UNCHANGED notLoadVars
    /\ reads' = reads + 1
    /\ IF image.readable
       THEN /\ pc' = [pc EXCEPT ![t] = "ld_parse"]
            /\ UNCHANGED <<State, onceRunner, loadRuns, seen>>
       ELSE Finish(t, Err("Io", ""))
    /\ UNCHANGED <<image, crashed, tibVars, fn, callee, result, ncalls, mem,
                   map_base, mapped, exports, protCalls, headerProt, maps,
                   attaches, attachArgs>>

\* load_dll: PeFile64::parse(dll).map_err(ParseError)?
LoadParse(t) ==
    /\ At(t, "ld_parse")
    /\ UNCHANGED notLoadVars
    /\ IF image.parse_ok
       THEN /\ pc' = [pc EXCEPT ![t] = "ld_mmap"]
            /\ UNCHANGED <<State, onceRunner, loadRuns, seen>>
       ELSE Finish(t, Err("ParseError", ""))
    /\ UNCHANGED <<image, crashed, tibVars, fn, callee, result, ncalls, mem,
                   map_base, mapped, exports, protCalls, headerProt, reads, maps,
                   attaches, attachArgs>>

\* load_dll: libc::mmap of size_of_image bytes, at an address the OS chooses
LoadMmap(t) ==
    /\ At(t, "ld_mmap")
    /\ UNCHANGED notLoadVars
    /\ \E base \in MapBases :
        /\ map_base' = base
        /\ mem' = [b \in 0..(image.size_of_image - 1) |-> ZeroCell]
    /\ mapped' = TRUE
    /\ maps' = maps + 1
    /\ pc' = [pc EXCEPT ![t] = "ld_header"]
    /\ UNCHANGED <<image, State, onceRunner, crashed, tibVars, fn, seen, callee,
                   result, ncalls, exports, protCalls, headerProt, reads, attaches,
                   attachArgs, loadRuns>>

\* load_dll: mmap returned MAP_FAILED
LoadMmapFailed(t) ==
    /\ At(t, "ld_mmap")
    /\ UNCHANGED notLoadVars
    /\ Finish(t, Err("LoadError", "mmap failed"))
    /\ UNCHANGED <<image, crashed, tibVars, fn, callee, result, ncalls, mem,
                   map_base, mapped, exports, protCalls, headerProt, reads, maps,
                   attaches, attachArgs>>

\* What the steps of load_dll between mmap and the entry-point call leave alone.
LoadStepFrame ==
    UNCHANGED <<image, State, onceRunner, crashed, tibVars, fn, seen, callee,
                result, ncalls, map_base, mapped, reads, maps, attaches,
                attachArgs, loadRuns>>

\* load_dll: copy header, mprotect it read-only
LoadCopyHeader(t) ==
    /\ At(t, "ld_header")
    /\ UNCHANGED notLoadVars
    /\ mem' = CopyHeader(image, mem)
    /\ headerProt' = TRUE
    /\ pc' = [pc EXCEPT ![t] = "ld_sections"]
    /\ UNCHANGED <<exports, protCalls>>
    /\ LoadStepFrame

\* load_dll: copy sections
LoadCopySections(t) ==
    /\ At(t, "ld_sections")
    /\ UNCHANGED notLoadVars
    /\ mem' = CopySections(image, mem, 1)
    /\ pc' = [pc EXCEPT ![t] = "ld_relocs"]
    /\ UNCHANGED <<exports, protCalls, headerProt>>
    /\ LoadStepFrame

\* load_dll: apply relocations
LoadRelocate(t) ==
    /\ At(t, "ld_relocs")
    /\ UNCHANGED notLoadVars
    /\ mem' = ApplyRelocations(image, mem, map_base, 1)
    /\ pc' = [pc EXCEPT ![t] = "ld_imports"]
    /\ UNCHANGED <<exports, protCalls, headerProt>>
    /\ LoadStepFrame

\* load_dll: apply relocations, in a build with overflow checks: the
\* arithmetic of an entry overflows and the panic ends the process.
LoadRelocatePanics(t) ==
    /\ At(t, "ld_relocs")
    /\ UNCHANGED notLoadVars
    /\ RelocationOverflows(image, map_base)
    /\ crashed' = TRUE
    /\ UNCHANGED <<image, State, onceRunner, threadVars, loadVars>>

\* load_dll: fix up imports
LoadFixupImports(t) ==
    /\ At(t, "ld_imports")
    /\ UNCHANGED notLoadVars
    /\ mem' = FixupImports(image, mem, 1)
    /\ pc' = [pc EXCEPT ![t] = "ld_exports"]
    /\ UNCHANGED <<exports, protCalls, headerProt>>
    /\ LoadStepFrame

\* load_dll: build export table
LoadBuildExports(t) ==
    /\ At(t, "ld_exports")
    /\ UNCHANGED notLoadVars
    /\ exports' = BuildExports(image, map_base)
    /\ pc' = [pc EXCEPT ![t] = "ld_protect"]
    /\ UNCHANGED <<mem, protCalls, headerProt>>
    /\ LoadStepFrame

\* load_dll: fix section permissions
LoadFixPermissions(t) ==
    /\ At(t, "ld_protect")
    /\ UNCHANGED notLoadVars
    /\ protCalls' = FixPermissions(image, protCalls, 1)
    /\ pc' = [pc EXCEPT ![t] = "ld_tib"]
    /\ UNCHANGED <<mem, exports, headerProt>>
    /\ LoadStepFrame

\* load_dll: set up TIB before calling into DLL
LoadSetupTib(t) ==
    /\ At(t, "ld_tib")
    /\ UNCHANGED notLoadVars
    /\ \E d \in depths : setup_tib(t, StackTop(t) - d)
    /\ UNCHANGED depths
    /\ pc' = [pc EXCEPT ![t] = "ld_attach"]
    /\ UNCHANGED <<image, State, onceRunner, crashed, fn, seen, callee, result,
                   ncalls, loadVars>>

\* load_dll: call DllMain via the PE entry point when the image has one
LoadAttach(t) ==
    /\ At(t, "ld_attach")
    /\ UNCHANGED notLoadVars
    /\ IF image.entry_rva # 0
       THEN /\ attaches' = attaches + 1
            /\ attachArgs' = [hinst |-> map_base, fdw_reason |-> DLL_PROCESS_ATTACH]
            /\ callee' = [callee EXCEPT ![t] = (map_base + image.entry_rva) % AddrMod]
            /\ pc' = [pc EXCEPT ![t] = "in_dllmain"]
       ELSE /\ pc' = [pc EXCEPT ![t] = "ld_getfn"]
            /\ UNCHANGED <<attaches, attachArgs, callee>>
    /\ UNCHANGED <<image, State, onceRunner, crashed, tibVars, fn, seen, result,
                   ncalls, mem, map_base, mapped, exports, protCalls, headerProt,
                   reads, maps, loadRuns>>

\* DllMain returns; load_dll ignores what it returns.
DllMainReturn(t) ==
    /\ At(t, "in_dllmain")
    /\ UNCHANGED notLoadVars
    /\ pc' = [pc EXCEPT ![t] = "ld_getfn"]
    /\ callee' = [callee EXCEPT ![t] = 0]
    /\ UNCHANGED <<image, State, onceRunner, crashed, tibVars, fn, seen, result,
                   ncalls, loadVars>>

\* DllMain aborts: the process ends.
DllMainAbort(t) ==
    /\ At(t, "in_dllmain")
    /\ UNCHANGED notLoadVars
    /\ crashed' = TRUE
    /\ UNCHANGED <<image, State, onceRunner, threadVars, loadVars>>

\* load_dll: the ten get_fn lookups and Ok(state)
LoadGetFns(t) ==
    /\ At(t, "ld_getfn")
    /\ UNCHANGED notLoadVars
    /\ Finish(t, GetFns(image, map_base, exports))
    /\ UNCHANGED <<image, crashed, tibVars, fn, callee, result, ncalls, mem,
                   map_base, mapped, exports, protCalls, headerProt, reads, maps,
                   attaches, attachArgs>>

\* The entry point's match on init(): Ok(s) calls the image's function with
\* the include adapter and the addresses of the output locals.
DispatchOk(t) ==
    /\ At(t, "dispatch")
    /\ UNCHANGED notLoaderVars
    /\ seen[t].tag = "ok"
    /\ callee' = [callee EXCEPT ![t] = seen[t].fns[fn[t]]]
    /\ forwarded' = [forwarded EXCEPT ![t] = wrapped_include[t]]
    /\ pc' = [pc EXCEPT ![t] = "foreign"]
    /\ UNCHANGED <<image, State, onceRunner, crashed, tibVars, fn, seen, result,
                   ncalls, loadVars, requests, input, pInclude, outNull, wrapped_include,
                   code,
                   errors, ppCode, ppErrorMsgs, boxed_includes, freed_includes,
                   outcomes>>

\* The entry point's match on init(): Err(_) => E_FAIL.
DispatchErr(t) ==
    /\ At(t, "dispatch")
    /\ UNCHANGED notLoadVars
    /\ seen[t].tag # "ok"
    /\ result' = [result EXCEPT ![t] = E_FAIL]
    /\ pc' = [pc EXCEPT ![t] = "ret"]
    /\ UNCHANGED <<image, State, onceRunner, crashed, tibVars, fn, seen, callee,
                   ncalls, loadVars>>

\* The image's function returns its status, having stored its outputs.
ForeignReturn(t) ==
    /\ At(t, "foreign")
    /\ UNCHANGED notLoaderVars
    /\ result' = [result EXCEPT ![t] = Foreign(fn[t], input[t]).status]
    /\ \E c \in Stored(code[t], Foreign(fn[t], input[t]).code) :
          code' = [code EXCEPT ![t] = c]
    /\ \E e \in Stored(errors[t], Foreign(fn[t], input[t]).errors) :
          errors' = [errors EXCEPT ![t] = e]
    /\ pc' = [pc EXCEPT ![t] = "ret"]
    /\ UNCHANGED <<image, State, onceRunner, crashed, tibVars, fn, seen, callee,
                   ncalls, loadVars, requests, input, pInclude, outNull, wrapped_include,
                   forwarded, ppCode, ppErrorMsgs, boxed_includes, freed_includes,
                   outcomes>>

\* A store through the output parameter whether or not it is null: the store
\* through a null pointer faults.
store_through_Unchecked(is_null, cell, value) ==
    IF is_null THEN [cell |-> cell, fault |-> TRUE]
    ELSE [cell |-> value, fault |-> FALSE]

\* if !ppCode.is_null() { *ppCode = wrap_blob(code); }: what the host's cell
\* holds afterwards, and whether a store through a null pointer faulted.
store_through(is_null, cell, value) ==
    IF is_null THEN [cell |-> cell, fault |-> FALSE]
    ELSE [cell |-> value, fault |-> FALSE]

\* The entry point's store through ppCode.
StoreCode(t) ==
    store_through("ppCode" \in outNull[t], ppCode[t], WrapOutput(fn[t], code[t]))

\* The entry point's store through ppErrorMsgs, the parameter of D3DCompile.
StoreErrors(t) ==
    IF "ppErrorMsgs" \in OutParams(fn[t])
    THEN store_through("ppErrorMsgs" \in outNull[t], ppErrorMsgs[t],
                       wrap_blob(errors[t]))
    ELSE [cell |-> ppErrorMsgs[t], fault |-> FALSE]

\* What a completed call passed and what it gave back.
Outcome(t) ==
    [fn |-> fn[t], input |-> input[t], status |-> result[t],
     code |-> WrapOutput(fn[t], code[t]), errors |-> wrap_blob(errors[t])]

\* The entry point drops the include adapter, stores the adapters of the
\* outputs through the host's parameters and returns to its caller.
Return(t) ==
    /\ At(t, "ret")
    /\ UNCHANGED notLoaderVars
    /\ freed_includes' =
          [freed_includes EXCEPT ![t] = @ + free_include_wrapper(wrapped_include[t])]
    /\ ppCode' = [ppCode EXCEPT ![t] = StoreCode(t).cell]
    /\ ppErrorMsgs' = [ppErrorMsgs EXCEPT ![t] = StoreErrors(t).cell]
    /\ crashed' = (crashed \/ StoreCode(t).fault \/ StoreErrors(t).fault)
    /\ outcomes' = outcomes \cup {Outcome(t)}
    /\ pc' = [pc EXCEPT ![t] = "idle"]
    /\ UNCHANGED <<image, State, onceRunner, tibVars, fn, seen, callee,
                   result, ncalls, loadVars, requests, input, pInclude, outNull,
                   wrapped_include, forwarded, code, errors, boxed_includes>>

\* The adapters the host holds: what the calls stored through its parameters.
HostAdapters ==
    {p \in {ppCode[u] : u \in DOMAIN ppCode}
              \cup {ppErrorMsgs[u] : u \in DOMAIN ppErrorMsgs} : p # NullPtr}

\* A thread of the host calls a method of an adapter it holds: the thunk of
\* Handler::Passthrough calls the inner method with the image's convention.
MethodCall(t) ==
    /\ At(t, "idle")
    /\ UNCHANGED notLoadVars
    /\ HostAdapters # {}
    /\ pc' = [pc EXCEPT ![t] = "method"]
    /\ UNCHANGED <<image, State, onceRunner, crashed, tibVars, fn, seen, callee,
                   result, ncalls, loadVars>>

\* The inner method returns to the thunk and the thunk to the host.
MethodReturn(t) ==
    /\ At(t, "method")
    /\ UNCHANGED notLoadVars
    /\ pc' = [pc EXCEPT ![t] = "idle"]
    /\ UNCHANGED <<image, State, onceRunner, crashed, tibVars, fn, seen, callee,
                   result, ncalls, loadVars>>

\* The loader is not part of the run.
LoaderIdle == LoaderInit({}, {BaseImage}, {}, {})

(***************************************************************************)
(* The handle tables of the shims: file handles and file-mapping handles   *)
(* (kernel32.rs), thread-local-storage slots (kernel32.rs) and hash        *)
(* contexts (advapi32.rs).  A table operation under the table's lock is    *)
(* one step; the counter's fetch_add, the table operation and the native   *)
(* call of one shim are separate steps.                                    *)
(***************************************************************************)

\* Threads that call shims.
NShimThreads == 2

\* Shim calls of one run at most.
MaxOps == 4

\* AtomicU32::new(0x1000)
NEXT_HANDLE_INIT == 4096

\* AtomicU32::new(0)
TLS_NEXT_INIT == 0

\* AtomicU32::new(0x2000)
CRYPTO_NEXT_INIT == 8192

\* (-1isize) as *mut c_void
INVALID_HANDLE_VALUE == -1

\* 0xFFFFFFFF, the u32 whose bits are those of -1
TLS_OUT_OF_INDEXES == -1

\* The algorithm identifiers CryptCreateHash is called with (CALG_SHA1).
HashAlgorithms == {32772}

\* The descriptors open() may return, and the keys pthread_key_create may.
FdPool == 3..(3 + MaxOps)

KeyPool == 0..MaxOps

\* The sizes CreateFileMappingW is called with.
MappingSizes == {16}

EmptyTable == [h \in {} |-> 0]

\* HashMap::insert
Insert(table, key, value) ==
    [k \in DOMAIN table \cup {key} |-> IF k = key THEN value ELSE table[k]]

\* HashMap::remove
Remove(table, key) == [k \in DOMAIN table \ {key} |-> table[k]]

\* open() and pthread_key_create return the lowest free number.
LowestFree(pool, used) ==
    CHOOSE x \in pool \ used : \A y \in pool \ used : x <= y

\* A counter that hands out the same value again.
fetch_add_Stuck(counter) == counter

\* AtomicU32::fetch_add(1): the counter's new value (the old one is returned).
fetch_add(counter) == counter + 1

\* free_handle that looks the handle up and leaves it in the table.
free_handle_Keep(table, handle) == table

\* free_handle: get_handle_map().write().unwrap().remove(&handle)
free_handle(table, handle) == Remove(table, handle)

\* get_fd: get_handle_map().read().unwrap().get(&handle).copied()
get_fd(table, handle) == IF handle \in DOMAIN table THEN table[handle] ELSE -1

NoOp == [op |-> "", h |-> 0, found |-> FALSE, ret |-> 0]

Done(op, h, found, ret) == [op |-> op, h |-> h, found |-> found, ret |-> ret]

NoHandles == [file |-> {}, mapping |-> {}, tls |-> {}, crypto |-> {}]

\* The tables as the statics initialise them, with the given threads.
HandlesInit(threads) ==
    /\ NEXT_HANDLE = NEXT_HANDLE_INIT
    /\ HANDLE_MAP = EmptyTable
    /\ MMAP_MAP = EmptyTable
    /\ TLS_NEXT = TLS_NEXT_INIT
    /\ TLS_SLOTS = EmptyTable
    /\ CRYPTO_NEXT = CRYPTO_NEXT_INIT
    /\ CRYPTO_HANDLES = EmptyTable
    /\ openFds = {}
    /\ liveKeys = {}
    /\ hpc = [t \in threads |-> "idle"]
    /\ harg = [t \in threads |-> 0]
    /\ hloc = [t \in threads |-> 0]
    /\ lastOp = [t \in threads |-> NoOp]
    /\ nops = 0
    /\ issued = [handle |-> << >>, tls |-> << >>, crypto |-> << >>]
    /\ returned = NoHandles
    /\ closed = NoHandles

\* The shims are not part of the run.
HandlesIdle == HandlesInit({})

\* Thread t starts a shim call.
Starts(t) ==
    /\ t \in DOMAIN hpc
    /\ hpc[t] = "idle"
    /\ nops < MaxOps
    /\ nops' = nops + 1
    /\ UNCHANGED notHandleVars

\* Thread t is at the given place of a shim call.
Within(t, place) ==
    /\ t \in DOMAIN hpc
    /\ hpc[t] = place
    /\ UNCHANGED <<nops, notHandleVars>>

\* Thread t's shim call returns.
Returns(t, op, h, found, ret) ==
    /\ lastOp' = [lastOp EXCEPT ![t] = Done(op, h, found, ret)]
    /\ hpc' = [hpc EXCEPT ![t] = "idle"]
    /\ harg' = [harg EXCEPT ![t] = 0]
    /\ hloc' = [hloc EXCEPT ![t] = 0]

\* Thread t's shim call goes on to the given place, holding h and x.
GoesOn(t, place, h, x) ==
    /\ hpc' = [hpc EXCEPT ![t] = place]
    /\ harg' = [harg EXCEPT ![t] = h]
    /\ hloc' = [hloc EXCEPT ![t] = x]
    /\ UNCHANGED lastOp

\* CreateFileA / CreateFileW: libc::open succeeds
CreateFileOpen(t) ==
    /\ Starts(t)
    /\ LET fd == LowestFree(FdPool, openFds) IN
        /\ openFds' = openFds \cup {fd}
        /\ GoesOn(t, "cf_fetch", 0, fd)
    /\ UNCHANGED <<NEXT_HANDLE, HANDLE_MAP, MMAP_MAP, TLS_NEXT, TLS_SLOTS,
                   CRYPTO_NEXT, CRYPTO_HANDLES, liveKeys, issued, returned, closed>>

\* CreateFileA / CreateFileW: libc::open fails
CreateFileOpenFails(t) ==
    /\ Starts(t)
    /\ Returns(t, "CreateFile", INVALID_HANDLE_VALUE, FALSE, INVALID_HANDLE_VALUE)
    /\ UNCHANGED <<tableVars, issued, returned, closed>>

\* alloc_handle: NEXT_HANDLE.fetch_add(1, SeqCst)
AllocHandleFetch(t) ==
    /\ Within(t, "cf_fetch")
    /\ NEXT_HANDLE' = fetch_add(NEXT_HANDLE)
    /\ issued' = [issued EXCEPT !.handle = Append(@, NEXT_HANDLE)]
    /\ GoesOn(t, "cf_insert", NEXT_HANDLE, hloc[t])
    /\ UNCHANGED <<HANDLE_MAP, MMAP_MAP, TLS_NEXT, TLS_SLOTS, CRYPTO_NEXT,
                   CRYPTO_HANDLES, openFds, liveKeys, returned, closed>>

\* alloc_handle: get_handle_map().write().unwrap().insert(handle, fd)
AllocHandleInsert(t) ==
    /\ Within(t, "cf_insert")
    /\ HANDLE_MAP' = Insert(HANDLE_MAP, harg[t], hloc[t])
    /\ returned' = [returned EXCEPT !.file = @ \cup {harg[t]}]
    /\ Returns(t, "CreateFile", harg[t], TRUE, harg[t])
    /\ UNCHANGED <<NEXT_HANDLE, MMAP_MAP, TLS_NEXT, TLS_SLOTS, CRYPTO_NEXT,
                   CRYPTO_HANDLES, openFds, liveKeys, issued, closed>>

\* The kind of a handle a create call returned.
KindOf(h) == IF h \in returned.mapping THEN "mapping" ELSE "file"

\* CloseHandle: free_handle(handle) finds the handle
CloseHandleFound(t) ==
    /\ Starts(t)
    /\ \E h \in returned.file \cup returned.mapping :
        /\ h \in DOMAIN HANDLE_MAP
        /\ HANDLE_MAP' = free_handle(HANDLE_MAP, h)
        /\ GoesOn(t, "ch_close", h, HANDLE_MAP[h])
    /\ UNCHANGED <<NEXT_HANDLE, MMAP_MAP, TLS_NEXT, TLS_SLOTS, CRYPTO_NEXT,
                   CRYPTO_HANDLES, openFds, liveKeys, issued, returned, closed>>

\* CloseHandle: libc::close(fd); 1
CloseHandleClose(t) ==
    /\ Within(t, "ch_close")
    /\ openFds' = openFds \ {hloc[t]}
    /\ closed' = [closed EXCEPT !.file = @ \cup {harg[t]}]
    /\ Returns(t, "CloseHandle", harg[t], TRUE, 1)
    /\ UNCHANGED <<NEXT_HANDLE, HANDLE_MAP, MMAP_MAP, TLS_NEXT, TLS_SLOTS,
                   CRYPTO_NEXT, CRYPTO_HANDLES, liveKeys, issued, returned>>

\* CloseHandle: free_handle(handle) finds nothing; 1
CloseHandleAbsent(t) ==
    /\ Starts(t)
    /\ \E h \in returned.file \cup returned.mapping :
        /\ h \notin DOMAIN HANDLE_MAP
        /\ closed' = [closed EXCEPT ![KindOf(h)] = @ \cup {h}]
        /\ Returns(t, "CloseHandle", h, FALSE, 1)
    /\ UNCHANGED <<tableVars, issued, returned>>

\* CreateFileMappingW: get_fd(handle) finds the file handle
CreateFileMappingFound(t) ==
    /\ Starts(t)
    /\ \E hFile \in returned.file :
        /\ get_fd(HANDLE_MAP, hFile) # -1
        /\ GoesOn(t, "fm_fetch", 0, get_fd(HANDLE_MAP, hFile))
    /\ UNCHANGED <<tableVars, issued, returned, closed>>

\* CreateFileMappingW: get_fd(handle) finds nothing; null
CreateFileMappingAbsent(t) ==
    /\ Starts(t)
    /\ \E hFile \in returned.file :
        /\ get_fd(HANDLE_MAP, hFile) = -1
        /\ Returns(t, "CreateFileMappingW", hFile, FALSE, 0)
    /\ UNCHANGED <<tableVars, issued, returned, closed>>

\* CreateFileMappingW: NEXT_HANDLE.fetch_add(1, SeqCst)
CreateFileMappingFetch(t) ==
    /\ Within(t, "fm_fetch")
    /\ NEXT_HANDLE' = fetch_add(NEXT_HANDLE)
    /\ issued' = [issued EXCEPT !.handle = Append(@, NEXT_HANDLE)]
    /\ GoesOn(t, "fm_insert", NEXT_HANDLE, hloc[t])
    /\ UNCHANGED <<HANDLE_MAP, MMAP_MAP, TLS_NEXT, TLS_SLOTS, CRYPTO_NEXT,
                   CRYPTO_HANDLES, openFds, liveKeys, returned, closed>>

\* CreateFileMappingW: get_mmap_map().write().unwrap().insert(..)
CreateFileMappingInsert(t) ==
    /\ Within(t, "fm_insert")
    /\ \E size \in MappingSizes :
        MMAP_MAP' = Insert(MMAP_MAP, harg[t], [fd |-> hloc[t], size |-> size])
    /\ returned' = [returned EXCEPT !.mapping = @ \cup {harg[t]}]
    /\ Returns(t, "CreateFileMappingW", harg[t], TRUE, harg[t])
    /\ UNCHANGED <<NEXT_HANDLE, HANDLE_MAP, TLS_NEXT, TLS_SLOTS, CRYPTO_NEXT,
                   CRYPTO_HANDLES, openFds, liveKeys, issued, closed>>

\* TlsAlloc: pthread_key_create succeeds
TlsAllocKey(t) ==
    /\ Starts(t)
    /\ LET key == LowestFree(KeyPool, liveKeys) IN
        /\ liveKeys' = liveKeys \cup {key}
        /\ GoesOn(t, "tls_fetch", 0, key)
    /\ UNCHANGED <<NEXT_HANDLE, HANDLE_MAP, MMAP_MAP, TLS_NEXT, TLS_SLOTS,
                   CRYPTO_NEXT, CRYPTO_HANDLES, openFds, issued, returned, closed>>

\* TlsAlloc: pthread_key_create fails; 0xFFFFFFFF
TlsAllocFails(t) ==
    /\ Starts(t)
    /\ Returns(t, "TlsAlloc", TLS_OUT_OF_INDEXES, FALSE, TLS_OUT_OF_INDEXES)
    /\ UNCHANGED <<tableVars, issued, returned, closed>>

\* TlsAlloc: TLS_NEXT.fetch_add(1, SeqCst)
TlsAllocFetch(t) ==
    /\ Within(t, "tls_fetch")
    /\ TLS_NEXT' = fetch_add(TLS_NEXT)
    /\ issued' = [issued EXCEPT !.tls = Append(@, TLS_NEXT)]
    /\ GoesOn(t, "tls_insert", TLS_NEXT, hloc[t])
    /\ UNCHANGED <<NEXT_HANDLE, HANDLE_MAP, MMAP_MAP, TLS_SLOTS, CRYPTO_NEXT,
                   CRYPTO_HANDLES, openFds, liveKeys, returned, closed>>

\* TlsAlloc: get_tls_slots().write().unwrap().insert(slot, key)
TlsAllocInsert(t) ==
    /\ Within(t, "tls_insert")
    /\ TLS_SLOTS' = Insert(TLS_SLOTS, harg[t], hloc[t])
    /\ returned' = [returned EXCEPT !.tls = @ \cup {harg[t]}]
    /\ Returns(t, "TlsAlloc", harg[t], TRUE, harg[t])
    /\ UNCHANGED <<NEXT_HANDLE, HANDLE_MAP, MMAP_MAP, TLS_NEXT, CRYPTO_NEXT,
                   CRYPTO_HANDLES, openFds, liveKeys, issued, closed>>

\* TlsFree: the slot is removed and its key deleted under the write lock; 1
TlsFreeFound(t) ==
    /\ Starts(t)
    /\ \E slot \in returned.tls :
        /\ slot \in DOMAIN TLS_SLOTS
        /\ TLS_SLOTS' = Remove(TLS_SLOTS, slot)
        /\ liveKeys' = liveKeys \ {TLS_SLOTS[slot]}
        /\ closed' = [closed EXCEPT !.tls = @ \cup {slot}]
        /\ Returns(t, "TlsFree", slot, TRUE, 1)
    /\ UNCHANGED <<NEXT_HANDLE, HANDLE_MAP, MMAP_MAP, TLS_NEXT, CRYPTO_NEXT,
                   CRYPTO_HANDLES, openFds, issued, returned>>

\* TlsFree: the slot is not in the table; 0
TlsFreeAbsent(t) ==
    /\ Starts(t)
    /\ \E slot \in returned.tls :
        /\ slot \notin DOMAIN TLS_SLOTS
        /\ closed' = [closed EXCEPT !.tls = @ \cup {slot}]
        /\ Returns(t, "TlsFree", slot, FALSE, 0)
    /\ UNCHANGED <<tableVars, issued, returned>>

\* CryptCreateHash: CRYPTO_NEXT.fetch_add(1, SeqCst)
CryptCreateHashFetch(t) ==
    /\ Starts(t)
    /\ CRYPTO_NEXT' = fetch_add(CRYPTO_NEXT)
    /\ issued' = [issued EXCEPT !.crypto = Append(@, CRYPTO_NEXT)]
    /\ \E Algid \in HashAlgorithms : GoesOn(t, "cc_insert", CRYPTO_NEXT, Algid)
    /\ UNCHANGED <<NEXT_HANDLE, HANDLE_MAP, MMAP_MAP, TLS_NEXT, TLS_SLOTS,
                   CRYPTO_HANDLES, openFds, liveKeys, returned, closed>>

\* CryptCreateHash: get_crypto_handles().write().unwrap().insert(handle, ctx); 1
CryptCreateHashInsert(t) ==
    /\ Within(t, "cc_insert")
    /\ CRYPTO_HANDLES' = Insert(CRYPTO_HANDLES, harg[t],
                                [data |-> << >>, alg |-> hloc[t]])
    /\ returned' = [returned EXCEPT !.crypto = @ \cup {harg[t]}]
    /\ Returns(t, "CryptCreateHash", harg[t], TRUE, 1)
    /\ UNCHANGED <<NEXT_HANDLE, HANDLE_MAP, MMAP_MAP, TLS_NEXT, TLS_SLOTS,
                   CRYPTO_NEXT, openFds, liveKeys, issued, closed>>

\* CryptDestroyHash: get_crypto_handles().write().unwrap().remove(..); 1
CryptDestroyHash(t) ==
    /\ Starts(t)
    /\ \E hHash \in returned.crypto :
        /\ CRYPTO_HANDLES' = Remove(CRYPTO_HANDLES, hHash)
        /\ closed' = [closed EXCEPT !.crypto = @ \cup {hHash}]
        /\ Returns(t, "CryptDestroyHash", hHash, hHash \in DOMAIN CRYPTO_HANDLES, 1)
    /\ UNCHANGED <<NEXT_HANDLE, HANDLE_MAP, MMAP_MAP, TLS_NEXT, TLS_SLOTS,
                   CRYPTO_NEXT, openFds, liveKeys, issued, returned>>

(***************************************************************************)
(* The methods of a blob adapter (com_wrapper! BlobWrapper): the host      *)
(* holds one adapter around one object of the image and refCalls AddRef,      *)
(* Release and QueryInterface on it from several threads.                  *)
(***************************************************************************)

\* Threads that call adapter methods.
NAdapterThreads == 2

\* Adapter methods called in one run at most.
MaxMethods == 5

\* The interfaces the host asks QueryInterface for: one the object has, one
\* it has not.
Riids == {"IID_ID3DBlob", "IID_Other"}

\* The adapter wrap_blob made around a fresh object of the image, which
\* counts one reference.
AdapterInit(threads) ==
    /\ refcount = 1
    /\ boxed = TRUE
    /\ drops = 0
    /\ apc = [t \in threads |-> "idle"]
    /\ count = [t \in threads |-> 0]
    /\ hostRefs = 1
    /\ refCalls = << >>
    /\ ppv = NullPtr
    /\ nmethods = 0

\* No adapter is part of the run.
AdapterIdle ==
    /\ refcount = 0
    /\ boxed = FALSE
    /\ drops = 0
    /\ apc = [t \in {} |-> "idle"]
    /\ count = [t \in {} |-> 0]
    /\ hostRefs = 0
    /\ refCalls = << >>
    /\ ppv = NullPtr
    /\ nmethods = 0

\* The host refCalls a method on the adapter: it holds a reference to it.
HostCalls(t) ==
    /\ t \in DOMAIN apc
    /\ apc[t] = "idle"
    /\ hostRefs > 0
    /\ nmethods < MaxMethods
    /\ nmethods' = nmethods + 1

\* Handler::Passthrough for AddRef: the inner AddRef is called on
\* (*wrapper).inner and its count returned.
AdapterAddRef(t) ==
    /\ HostCalls(t)
    /\ UNCHANGED notAdapterVars
    /\ refcount' = refcount + 1
    /\ refCalls' = Append(refCalls, <<"AddRef", refcount + 1>>)
    /\ hostRefs' = hostRefs + 1
    /\ UNCHANGED <<boxed, drops, apc, count, ppv>>

\* Handler::Release: let count = inner Release
AdapterRelease(t) ==
    /\ HostCalls(t)
    /\ UNCHANGED notAdapterVars
    /\ refcount' = refcount - 1
    /\ count' = [count EXCEPT ![t] = refcount - 1]
    /\ refCalls' = Append(refCalls, <<"Release", refcount - 1>>)
    /\ hostRefs' = hostRefs - 1
    /\ apc' = [apc EXCEPT ![t] = "release"]
    /\ UNCHANGED <<boxed, drops, ppv>>

\* A Release that drops the adapter whatever the inner count is.
ReleaseDropsAlways(c) == TRUE

\* Handler::Release: if count == 0
ReleaseDrops(c) == c = 0

\* Handler::Release: if count == 0 { drop(Box::from_raw(wrapper)) }; count
AdapterReleaseDrop(t) ==
    /\ t \in DOMAIN apc
    /\ apc[t] = "release"
    /\ UNCHANGED notAdapterVars
    /\ IF ReleaseDrops(count[t])
         THEN boxed' = FALSE /\ drops' = drops + 1
         ELSE UNCHANGED <<boxed, drops>>
    /\ apc' = [apc EXCEPT ![t] = "idle"]
    /\ UNCHANGED <<refcount, count, hostRefs, refCalls, ppv, nmethods>>

\* Handler::Passthrough for QueryInterface: riid and ppv go to the inner
\* QueryInterface as they are; the object stores its own pointer through ppv
\* and counts a reference when it has the interface, and stores null when it
\* has not.
AdapterQueryInterface(t) ==
    /\ HostCalls(t)
    /\ UNCHANGED notAdapterVars
    /\ \E riid \in Riids :
        IF riid = "IID_ID3DBlob"
          THEN /\ ppv' = Win64Object("blob")
               /\ refcount' = refcount + 1
          ELSE /\ ppv' = NullPtr
               /\ UNCHANGED refcount
    /\ UNCHANGED <<boxed, drops, apc, count, hostRefs, refCalls>>

(***************************************************************************)
(* The locks of the handle tables: which calls a shim makes while a guard  *)
(* of its table is alive.                                                  *)
(***************************************************************************)

\* Threads that call the shims.
NLockThreads == 2

\* Shim calls of one run at most.
MaxShimCalls == 3

\* The steps of each shim on a handle its table knows, in the order of the
\* code: a guard taken on a table, the guard dropped, a call made.
Acquire(table, mode) ==
    [step |-> "acquire", table |-> table, mode |-> mode, call |-> ""]

Drop(table) == [step |-> "drop", table |-> table, mode |-> "", call |-> ""]

Calls(name) == [step |-> "call", table |-> "", mode |-> "", call |-> name]

\* if let Some(fd) = free_handle(handle) { libc::close(fd) }: the guard lives
\* inside free_handle.
CloseHandleSteps ==
    <<Acquire("HANDLE_MAP", "write"), Drop("HANDLE_MAP"), Calls("close")>>

\* if let Some(key) = get_tls_slots().write().unwrap().remove(..) {
\* pthread_key_delete(key) }: the guard is a temporary of the scrutinee and
\* lives to the end of the if let.
TlsFreeSteps ==
    <<Acquire("TLS_SLOTS", "write"), Calls("pthread_key_delete"), Drop("TLS_SLOTS")>>

TlsGetValueSteps ==
    <<Acquire("TLS_SLOTS", "read"), Calls("pthread_getspecific"), Drop("TLS_SLOTS")>>

TlsSetValueSteps ==
    <<Acquire("TLS_SLOTS", "read"), Calls("pthread_setspecific"), Drop("TLS_SLOTS")>>

MapViewOfFileExSteps ==
    <<Acquire("MMAP_MAP", "read"), Calls("mmap"), Drop("MMAP_MAP")>>

\* The append to the context's buffer is the update of the table's entry and
\* is made through the guard; CryptHashData computes no hash.
CryptHashDataSteps ==
    <<Acquire("CRYPTO_HANDLES", "write"), Drop("CRYPTO_HANDLES")>>

\* HP_HASHVAL: the SHA-1 of the buffer is computed inside the if let.
CryptGetHashParamSteps ==
    <<Acquire("CRYPTO_HANDLES", "read"), Calls("Sha1::finalize"),
      Drop("CRYPTO_HANDLES")>>

\* The table a shim looks its handle up in.
TableOf(name) ==
    CASE name = "CloseHandle" -> "HANDLE_MAP"
      [] name \in {"TlsFree", "TlsGetValue", "TlsSetValue"} -> "TLS_SLOTS"
      [] name = "MapViewOfFileEx" -> "MMAP_MAP"
      [] OTHER -> "CRYPTO_HANDLES"

\* The mode of the guard a shim takes.
ModeOf(name) ==
    IF name \in {"CloseHandle", "TlsFree", "CryptHashData"} THEN "write" ELSE "read"

\* The steps of a shim: on a handle its table does not know, the lookup under
\* the guard and nothing else.
StepsOf(op) ==
    IF ~op.found
    THEN <<Acquire(TableOf(op.name), ModeOf(op.name)), Drop(TableOf(op.name))>>
    ELSE CASE op.name = "CloseHandle" -> CloseHandleSteps
           [] op.name = "TlsFree" -> TlsFreeSteps
           [] op.name = "TlsGetValue" -> TlsGetValueSteps
           [] op.name = "TlsSetValue" -> TlsSetValueSteps
           [] op.name = "MapViewOfFileEx" -> MapViewOfFileExSteps
           [] op.name = "CryptHashData" -> CryptHashDataSteps
           [] OTHER -> CryptGetHashParamSteps

LockedShims ==
    {"CloseHandle", "TlsFree", "TlsGetValue", "TlsSetValue", "MapViewOfFileEx",
     "CryptHashData", "CryptGetHashParam"}

LockTables == {"HANDLE_MAP", "MMAP_MAP", "TLS_SLOTS", "CRYPTO_HANDLES"}

NoShim == [name |-> "", found |-> FALSE]

LocksInit(threads) ==
    /\ guards = [l \in LockTables |-> {}]
    /\ shimOp = [t \in threads |-> NoShim]
    /\ shimPc = [t \in threads |-> 0]
    /\ inSyscall = [t \in threads |-> ""]
    /\ nshims = 0

\* No shim is part of the run.
LocksIdle == LocksInit({})

\* The step thread t is at.
StepAt(t) == StepsOf(shimOp[t])[shimPc[t]]

\* Thread t is at a step of the given kind and inside no call.
AtStep(t, kind) ==
    /\ t \in DOMAIN shimPc
    /\ shimPc[t] \in 1..Len(StepsOf(shimOp[t]))
    /\ inSyscall[t] = ""
    /\ StepAt(t).step = kind

\* RwLock: a write guard needs the lock free, a read guard needs it free of
\* writers.
CanLock(held, mode) ==
    IF mode = "write" THEN held = {}
    ELSE \A g \in held : g[2] = "read"

\* The image calls a shim on a handle.
ShimCall(t) ==
    /\ t \in DOMAIN shimPc
    /\ shimPc[t] = 0
    /\ nshims < MaxShimCalls
    /\ UNCHANGED notLockVars
    /\ \E name \in LockedShims : \E found \in BOOLEAN :
          shimOp' = [shimOp EXCEPT ![t] = [name |-> name, found |-> found]]
    /\ shimPc' = [shimPc EXCEPT ![t] = 1]
    /\ nshims' = nshims + 1
    /\ UNCHANGED <<guards, inSyscall>>

\* get_..().read().unwrap() / get_..().write().unwrap()
GuardTaken(t) ==
    /\ AtStep(t, "acquire")
    /\ UNCHANGED notLockVars
    /\ CanLock(guards[StepAt(t).table], StepAt(t).mode)
    /\ guards' = [guards EXCEPT ![StepAt(t).table] = @ \cup {<<t, StepAt(t).mode>>}]
    /\ shimPc' = [shimPc EXCEPT ![t] = @ + 1]
    /\ UNCHANGED <<shimOp, inSyscall, nshims>>

\* The guard goes out of scope.
GuardDropped(t) ==
    /\ AtStep(t, "drop")
    /\ UNCHANGED notLockVars
    /\ guards' = [guards EXCEPT ![StepAt(t).table] = {g \in @ : g[1] # t}]
    /\ shimPc' = [shimPc EXCEPT ![t] = @ + 1]
    /\ UNCHANGED <<shimOp, inSyscall, nshims>>

\* The shim calls close, pthread_key_delete, mmap, ..
CallEntered(t) ==
    /\ AtStep(t, "call")
    /\ UNCHANGED notLockVars
    /\ inSyscall' = [inSyscall EXCEPT ![t] = StepAt(t).call]
    /\ UNCHANGED <<guards, shimOp, shimPc, nshims>>

\* .. and the call returns.
CallReturned(t) ==
    /\ t \in DOMAIN shimPc
    /\ inSyscall[t] # ""
    /\ UNCHANGED notLockVars
    /\ inSyscall' = [inSyscall EXCEPT ![t] = ""]
    /\ shimPc' = [shimPc EXCEPT ![t] = @ + 1]
    /\ UNCHANGED <<guards, shimOp, nshims>>

\* The shim returns to the image.
ShimReturn(t) ==
    /\ t \in DOMAIN shimPc
    /\ shimPc[t] = Len(StepsOf(shimOp[t])) + 1
    /\ UNCHANGED notLockVars
    /\ shimPc' = [shimPc EXCEPT ![t] = 0]
    /\ UNCHANGED <<guards, shimOp, inSyscall, nshims>>

(***************************************************************************)
(* Critical sections: a CRITICAL_SECTION is used as a pthread_mutex_t      *)
(* initialised with default attributes.                                    *)
(***************************************************************************)

\* Threads of the image that use critical sections.
NCsThreads == 2

\* Critical sections of the image.
NSections == 2

\* EnterCriticalSection and LeaveCriticalSection calls of one run at most.
MaxCsCalls == 4

\* After InitializeCriticalSection on every section.
CsInit(threads) ==
    /\ csOwner = [s \in 1..NSections |-> 0]
    /\ csPc = [t \in threads |-> "out"]
    /\ csArg = [t \in threads |-> 0]
    /\ csDepth = [t \in threads |-> [s \in 1..NSections |-> 0]]
    /\ ncs = 0

\* No critical section is part of the run.
CsIdle ==
    /\ csOwner = [s \in {} |-> 0]
    /\ csPc = [t \in {} |-> "out"]
    /\ csArg = [t \in {} |-> 0]
    /\ csDepth = [t \in {} |-> 0]
    /\ ncs = 0

\* EnterCriticalSection: the thread calls pthread_mutex_lock(cs), also on a
\* section it is inside already.
EnterCriticalSection(t) ==
    /\ t \in DOMAIN csPc
    /\ csPc[t] = "out"
    /\ ncs < MaxCsCalls
    /\ UNCHANGED notCsVars
    /\ \E s \in 1..NSections : csArg' = [csArg EXCEPT ![t] = s]
    /\ csPc' = [csPc EXCEPT ![t] = "entering"]
    /\ ncs' = ncs + 1
    /\ UNCHANGED <<csOwner, csDepth>>

\* pthread_mutex_lock returns: the mutex was unlocked and is now locked by
\* the thread. A default mutex that its own thread has locked is not
\* unlocked: the call does not return.
MutexLocked(t) ==
    /\ t \in DOMAIN csPc
    /\ csPc[t] = "entering"
    /\ UNCHANGED notCsVars
    /\ csOwner[csArg[t]] = 0
    /\ csOwner' = [csOwner EXCEPT ![csArg[t]] = t]
    /\ csDepth' = [csDepth EXCEPT ![t][csArg[t]] = @ + 1]
    /\ csPc' = [csPc EXCEPT ![t] = "out"]
    /\ UNCHANGED <<csArg, ncs>>

\* LeaveCriticalSection on a section the thread is inside:
\* pthread_mutex_unlock(cs).
LeaveCriticalSection(t) ==
    /\ t \in DOMAIN csPc
    /\ csPc[t] = "out"
    /\ ncs < MaxCsCalls
    /\ UNCHANGED notCsVars
    /\ \E s \in 1..NSections :
        /\ csDepth[t][s] > 0
        /\ csOwner' = [csOwner EXCEPT ![s] = 0]
        /\ csDepth' = [csDepth EXCEPT ![t][s] = @ - 1]
    /\ ncs' = ncs + 1
    /\ UNCHANGED <<csPc, csArg>>


(***************************************************************************)
(* The shims whose body performs no operation (imports/kernel32.rs,        *)
(* imports/msvcrt.rs, imports/ntdll.rs): the body is a panic, or it        *)
(* returns a constant or its argument and reads and writes nothing else.   *)
(***************************************************************************)

\* Shim calls the image makes in a run at most, and views it maps at most.
MaxStubCalls == 2
MaxViews == 2

\* The shims whose body is panic!(..).
PanickingShims ==
    {"UnhandledExceptionFilter", "DeviceIoControl", "LoadLibraryExW",
     "GetProcAddress", "sscanf_s", "swprintf_s", "_vsnwprintf", "_snwprintf_s",
     "_wgetenv", "_callnewh", "__C_specific_handler", "__CxxFrameHandler3",
     "type_info_dtor", "_XcptFilter", "RtlLookupFunctionEntry",
     "RtlVirtualUnwind"}

\* The shims whose body is a constant: 1 (TRUE) whatever the arguments.
ConstantShims ==
    {"UnmapViewOfFile", "FreeLibrary", "HeapDestroy", "SetFileAttributesW",
     "DisableThreadLibraryCalls"}

\* The shims whose body is its first argument: _onexit, __dllonexit.
EchoShims == {"_onexit", "__dllonexit"}

\* The shims whose body is empty: _lock, _unlock.
EmptyShims == {"_lock", "_unlock"}

StubShims == PanickingShims \cup ConstantShims \cup EchoShims \cup EmptyShims

\* What the body of a shim does with an argument: it panics, or it returns.
StubBody(name, arg) ==
    CASE name \in PanickingShims -> [panics |-> TRUE, ret |-> 0]
      [] name \in ConstantShims -> [panics |-> FALSE, ret |-> 1]
      [] name \in EchoShims -> [panics |-> FALSE, ret |-> arg]
      [] OTHER -> [panics |-> FALSE, ret |-> 0]

\* The addresses mmap can return for a view, and the callbacks the image
\* registers.
ViewAddrs == {4096, 8192}
StubArgs(name) ==
    CASE name = "UnmapViewOfFile" -> views \cup {0}
      [] name \in EchoShims -> {7001}
      [] OTHER -> {0}

StubsInit ==
    /\ stName = ""
    /\ stArg = 0
    /\ stLog = << >>
    /\ stEnded = FALSE
    /\ views = {}

\* The shims are not part of the run.
StubsIdle ==
    /\ stName = "off"
    /\ stArg = 0
    /\ stLog = << >>
    /\ stEnded = FALSE
    /\ views = {}

\* The image is running, outside every shim.
InImage == stName = "" /\ ~stEnded

\* MapViewOfFileEx, the mmap succeeding: the view is mapped and its address
\* returned.
MapViewOfFileEx ==
    /\ InImage
    /\ UNCHANGED notStubVars
    /\ Cardinality(views) < MaxViews
    /\ Len(stLog) < MaxStubCalls
    /\ \E ptr \in ViewAddrs \ views :
        /\ views' = views \cup {ptr}
        /\ stLog' = Append(stLog, [name |-> "MapViewOfFileEx", arg |-> 0,
                                   ret |-> ptr])
    /\ UNCHANGED <<stName, stArg, stEnded>>

\* The image calls a shim through its import slot.
StubInvoke ==
    /\ InImage
    /\ UNCHANGED notStubVars
    /\ Len(stLog) < MaxStubCalls
    /\ \E name \in StubShims :
        /\ stName' = name
        /\ stArg' \in StubArgs(name)
    /\ UNCHANGED <<stLog, stEnded, views>>

\* The body panics: a panic leaving an extern "win64" function aborts.
StubPanic ==
    /\ stName \in StubShims /\ ~stEnded
    /\ UNCHANGED notStubVars
    /\ StubBody(stName, stArg).panics
    /\ stEnded' = TRUE
    /\ UNCHANGED <<stName, stArg, stLog, views>>

\* The body returns its value to the image; it has touched nothing.
StubReturn ==
    /\ stName \in StubShims /\ ~stEnded
    /\ UNCHANGED notStubVars
    /\ ~StubBody(stName, stArg).panics
    /\ stLog' = Append(stLog, [name |-> stName, arg |-> stArg,
                               ret |-> StubBody(stName, stArg).ret])
    /\ stName' = ""
    /\ stArg' = 0
    /\ UNCHANGED <<stEnded, views>>

(***************************************************************************)
(* The printf-style formatter (imports/printf.rs).                         *)
(***************************************************************************)

\* The longest format string and the largest buffer size of a call.
MaxFmtLen == 4
MaxCount == 3

\* The characters a format string is made of: a literal, the conversion
\* mark, supported specifiers, a specifier that is not supported, "*", a
\* length modifier and the precision mark.
FormatChars == {"a", "%", "d", "s", "c", "q", "*", "l", "."}

Flags == {"-", "+", " ", "#", "0"}
Digits == {"0", "1", "2", "3", "4", "5", "6", "7", "8", "9"}
LengthModifiers == {"h", "l", "L", "z", "j", "t", "I"}

\* The specifier characters the match of vsnprintf_core has an arm for.
Specifiers ==
    {"%", "s", "d", "i", "u", "x", "X", "p", "c", "f", "F", "e", "E", "g", "G"}

\* The arguments behind argptr: each 64-bit value by what format!() or the
\* C string it points to reads as; the third is a null pointer.
VarArgs ==
    << [dec |-> "12", hex |-> "c", HEX |-> "C", ptr |-> "000000000000000C",
        chr |-> "f", flt |-> "0.00000000006", str |-> "xy", null |-> FALSE],
       [dec |-> "7", hex |-> "7", HEX |-> "7", ptr |-> "0000000000000007",
        chr |-> "b", flt |-> "0.00000000003", str |-> "pqr", null |-> FALSE],
       [dec |-> "0", hex |-> "0", HEX |-> "0", ptr |-> "0000000000000000",
        chr |-> "n", flt |-> "0", str |-> "", null |-> TRUE],
       [dec |-> "345", hex |-> "159", HEX |-> "159", ptr |-> "0000000000000159",
        chr |-> "Y", flt |-> "0.00000000017", str |-> "w", null |-> FALSE],
       [dec |-> "6", hex |-> "6", HEX |-> "6", ptr |-> "0000000000000006",
        chr |-> "g", flt |-> "0.00000000002", str |-> "k", null |-> FALSE] >>

\* *format.add(i)
CharAt(format, i) == SubSeq(format, i + 1, i + 1)

\* The cells of the caller's buffer and one cell behind the largest buffer.
NoBuffer == [b \in 0..(MaxCount + 1) |-> "untouched"]

\* A byte stored at buffer.add(at), and libc::memcpy of the first copy_len
\* bytes of s to buffer.add(at).
Store(buf, at, byte) == [b \in DOMAIN buf |-> IF b = at THEN byte ELSE buf[b]]
memcpy(buf, at, s, copy_len) ==
    [b \in DOMAIN buf |->
        IF b >= at /\ b < at + copy_len THEN CharAt(s, b - at) ELSE buf[b]]

Min(a, b) == IF a <= b THEN a ELSE b

\* while i < fmt_len { if the character is one of chars { i += 1 } else break }
RECURSIVE SkipChars(_, _, _)
SkipChars(format, i, chars) ==
    IF i < Len(format) /\ CharAt(format, i) \in chars
    THEN SkipChars(format, i + 1, chars)
    ELSE i

\* Skip length modifiers: h, hh, l, ll, L, z, j, t, I, I32, I64
RECURSIVE SkipLength(_, _)
SkipLength(format, i) ==
    IF i >= Len(format) THEN i
    ELSE IF CharAt(format, i) \in LengthModifiers THEN SkipLength(format, i + 1)
    ELSE IF CharAt(format, i) \in Digits /\ i > 0 /\ CharAt(format, i - 1) = "I"
         THEN SkipLength(format, i + 1)
    ELSE i

\* What the conversion renders of the argument.
Rendering(spec, a) ==
    CASE spec \in {"d", "i", "u"} -> a.dec
      [] spec = "x" -> a.hex
      [] spec = "X" -> a.HEX
      [] spec = "p" -> a.ptr
      [] OTHER -> a.flt

\* A copy length that is the whole text, whatever room the buffer has left.
copy_len_Whole(len, max_write, written) == len

\* let copy_len = std::cmp::min(len, max_write - written)
copy_len(len, max_write, written) == Min(len, max_write - written)

\* An arm for unknown specifiers that takes an argument and writes the
\* specifier character.
UnknownArm_Printed(spec, st) ==
    [st EXCEPT !.arg = @ + 1, !.buf = Store(@, st.written, spec),
               !.written = @ + 1, !.stored = @ + 1]

\* _ => { /* Unknown specifier, skip */ }
UnknownArm(spec, st) == st

\* match spec { .. }: the arm of the specifier.
Convert(spec, st, max_write) ==
    LET a == st.argptr[st.arg + 1] IN
    CASE spec = "%" ->
            [st EXCEPT !.buf = Store(@, st.written, "%"), !.written = @ + 1,
                       !.stored = @ + 1]
      [] spec = "s" ->
            IF a.null THEN [st EXCEPT !.arg = @ + 1]
            ELSE LET n == copy_len(Len(a.str), max_write, st.written) IN
                 [st EXCEPT !.arg = @ + 1,
                            !.buf = memcpy(@, st.written, a.str, n),
                            !.written = @ + n, !.stored = @ + n]
      [] spec = "c" ->
            [st EXCEPT !.arg = @ + 1, !.buf = Store(@, st.written, a.chr),
                       !.written = @ + 1, !.stored = @ + 1]
      [] spec \in Specifiers \ {"%", "s", "c"} ->
            LET s == Rendering(spec, a)
                n == copy_len(Len(s), max_write, st.written)
            IN  [st EXCEPT !.arg = @ + 1,
                           !.buf = memcpy(@, st.written, s, n),
                           !.written = @ + n, !.stored = @ + n]
      [] OTHER -> UnknownArm(spec, st)

\* One conversion: the text from the character after the "%" on.  The loop
\* ends (done) when the format ends inside the conversion.
Conversion(format, st, max_write) ==
    LET fmt_len == Len(format)
        i1 == st.i + 1
        i2 == SkipChars(format, i1, Flags)
        star2 == i2 < fmt_len /\ CharAt(format, i2) = "*"
        i3 == IF star2 THEN i2 + 1 ELSE SkipChars(format, i2, Digits)
        dot == i3 < fmt_len /\ CharAt(format, i3) = "."
        star3 == dot /\ i3 + 1 < fmt_len /\ CharAt(format, i3 + 1) = "*"
        i4 == IF ~dot THEN i3
              ELSE IF star3 THEN i3 + 2
              ELSE SkipChars(format, i3 + 1, Digits)
        i5 == SkipLength(format, i4)
        arg == st.arg + (IF star2 THEN 1 ELSE 0) + (IF star3 THEN 1 ELSE 0)
    IN  IF i1 >= fmt_len THEN [st EXCEPT !.i = i1, !.done = TRUE]
        ELSE IF i5 >= fmt_len
             THEN [st EXCEPT !.i = i5, !.arg = arg, !.done = TRUE]
        ELSE Convert(CharAt(format, i5), [st EXCEPT !.i = i5 + 1, !.arg = arg],
                     max_write)

\* while i < fmt_len && written < max_write { .. }
RECURSIVE FormatLoop(_, _, _)
FormatLoop(format, st, max_write) ==
    IF st.done \/ ~(st.i < Len(format) /\ st.written < max_write) THEN st
    ELSE IF CharAt(format, st.i) # "%"
         THEN FormatLoop(format,
                         [st EXCEPT !.buf = Store(@, st.written, CharAt(format, st.i)),
                                    !.written = @ + 1, !.stored = @ + 1,
                                    !.i = @ + 1],
                         max_write)
    ELSE FormatLoop(format, Conversion(format, st, max_write), max_write)

\* vsnprintf_core(buffer, count, format, argptr), count being size here: the
\* value returned, the
\* buffer's cells afterwards, the bytes stored and the arguments consumed.
vsnprintf_core(null, size, format, argptr) ==
    IF null \/ size = 0
    THEN [ret |-> -1, buf |-> NoBuffer, stored |-> 0, used |-> 0]
    ELSE LET max_write == size - 1
             st == FormatLoop(format,
                              [i |-> 0, written |-> 0, arg |-> 0, buf |-> NoBuffer,
                               stored |-> 0, done |-> FALSE,
                               argptr |-> argptr],
                              max_write)
         IN  [ret |-> st.written, buf |-> Store(st.buf, st.written, "NUL"),
              stored |-> st.stored + 1, used |-> st.arg]

\* Every format string of up to n characters.
RECURSIVE FormatsUpTo(_)
FormatsUpTo(n) ==
    IF n = 0 THEN {""}
    ELSE LET shorter == FormatsUpTo(n - 1) IN
         shorter \cup {s \o c : s \in shorter, c \in FormatChars}

NoOutput == [ret |-> 0, buf |-> NoBuffer, stored |-> 0, used |-> 0]

\* A call is chosen: the image passes a buffer or a null pointer, a size and
\* a format; nothing has been formatted yet.
PrintfInit ==
    /\ fFormat \in FormatsUpTo(MaxFmtLen)
    /\ fCount \in 0..MaxCount
    /\ fNull \in BOOLEAN
    /\ fOut = NoOutput
    /\ fPc = "call"

\* The formatter is not part of the run.
PrintfIdle ==
    /\ fFormat = ""
    /\ fCount = 0
    /\ fNull = FALSE
    /\ fOut = NoOutput
    /\ fPc = "off"

\* sprintf_s / _vsnprintf: one call of vsnprintf_core.
Vsnprintf ==
    /\ fPc = "call"
    /\ UNCHANGED notPrintfVars
    /\ fOut' = vsnprintf_core(fNull, fCount, fFormat, VarArgs)
    /\ fPc' = "done"
    /\ UNCHANGED <<fFormat, fCount, fNull>>
(***************************************************************************)
(* Specifications.                                                         *)
(***************************************************************************)

\* How far below the top of its stack the local of setup_tib can be: one call
\* depth, or two depths that fall in different pages.
ShallowFrames == {256}
Frames == {256, 8448}

\* Threads calling entry points concurrently.
Init ==
    ResolverIdle /\ LoaderInit(1..NThreads, CoreImages, PlainRequests, ShallowFrames)
        /\ HandlesIdle /\ AdapterIdle /\ LocksIdle /\ CsIdle /\ StubsIdle
        /\ PrintfIdle

\* A step of a thread that calls entry points.
Next ==
    \E t \in 1..NThreads :
        \/ Call(t)
        \/ SetupTib(t)
        \/ GetOrInitGet(t)
        \/ GetOrInitRun(t)
        \/ LoadRead(t)
        \/ LoadParse(t)
        \/ LoadMmap(t)
        \/ LoadMmapFailed(t)
        \/ LoadCopyHeader(t)
        \/ LoadCopySections(t)
        \/ LoadRelocate(t)
        \/ LoadRelocatePanics(t)
        \/ LoadFixupImports(t)
        \/ LoadBuildExports(t)
        \/ LoadFixPermissions(t)
        \/ LoadSetupTib(t)
        \/ LoadAttach(t)
        \/ DllMainReturn(t)
        \/ DllMainAbort(t)
        \/ LoadGetFns(t)
        \/ DispatchOk(t)
        \/ DispatchErr(t)
        \/ ForeignReturn(t)
        \/ Return(t)

Spec == Init /\ [][Next]_vars

\* Threads calling entry points concurrently from different call depths.
TibInit ==
    ResolverIdle /\ LoaderInit(1..NThreads, {BaseImage}, PlainRequests, Frames)
        /\ HandlesIdle /\ AdapterIdle /\ LocksIdle /\ CsIdle /\ StubsIdle
        /\ PrintfIdle

\* A step of a thread that calls entry points, the container file being one
\* whose relocations do not overflow.
TibNext ==
    \E t \in 1..NThreads :
        \/ Call(t)
        \/ SetupTib(t)
        \/ GetOrInitGet(t)
        \/ GetOrInitRun(t)
        \/ LoadRead(t)
        \/ LoadParse(t)
        \/ LoadMmap(t)
        \/ LoadMmapFailed(t)
        \/ LoadCopyHeader(t)
        \/ LoadCopySections(t)
        \/ LoadRelocate(t)
        \/ LoadFixupImports(t)
        \/ LoadBuildExports(t)
        \/ LoadFixPermissions(t)
        \/ LoadSetupTib(t)
        \/ LoadAttach(t)
        \/ DllMainReturn(t)
        \/ DllMainAbort(t)
        \/ LoadGetFns(t)
        \/ DispatchOk(t)
        \/ DispatchErr(t)
        \/ ForeignReturn(t)
        \/ Return(t)

SpecTib == TibInit /\ [][TibNext]_vars

\* Threads calling entry points with every argument of the model and calling
\* methods of the adapters the calls gave them.
EntryInit ==
    ResolverIdle /\ LoaderInit(1..NThreads, EntryImages, Requests, ShallowFrames) /\ HandlesIdle
        /\ AdapterIdle /\ LocksIdle /\ CsIdle /\ StubsIdle
        /\ PrintfIdle

\* A step of a thread that calls entry points and adapter methods.
EntryNext ==
    \E t \in 1..NThreads :
        \/ Call(t)
        \/ SetupTib(t)
        \/ GetOrInitGet(t)
        \/ GetOrInitRun(t)
        \/ LoadRead(t)
        \/ LoadParse(t)
        \/ LoadMmap(t)
        \/ LoadMmapFailed(t)
        \/ LoadCopyHeader(t)
        \/ LoadCopySections(t)
        \/ LoadRelocate(t)
        \/ LoadRelocatePanics(t)
        \/ LoadFixupImports(t)
        \/ LoadBuildExports(t)
        \/ LoadFixPermissions(t)
        \/ LoadSetupTib(t)
        \/ LoadAttach(t)
        \/ DllMainReturn(t)
        \/ DllMainAbort(t)
        \/ LoadGetFns(t)
        \/ DispatchOk(t)
        \/ DispatchErr(t)
        \/ ForeignReturn(t)
        \/ Return(t)
        \/ MethodCall(t)
        \/ MethodReturn(t)

SpecEntry == EntryInit /\ [][EntryNext]_vars

\* One thread whose calls pass null for some of the output parameters.
OutInit ==
    ResolverIdle /\ LoaderInit({1}, EntryImages, OutRequests, ShallowFrames)
        /\ HandlesIdle /\ AdapterIdle /\ LocksIdle /\ CsIdle /\ StubsIdle
        /\ PrintfIdle

SpecOutputs == OutInit /\ [][EntryNext]_vars

\* One thread loading an image with items at the end of its mapping.
EdgeInit ==
    ResolverIdle /\ LoaderInit({1}, CoreImages \cup EdgeImages, PlainRequests, ShallowFrames)
        /\ HandlesIdle /\ AdapterIdle /\ LocksIdle /\ CsIdle /\ StubsIdle
        /\ PrintfIdle

SpecEdge == EdgeInit /\ [][Next]_vars

\* One thread loading each image of the model.
LoadInit ==
    ResolverIdle /\ LoaderInit({1}, Images, PlainRequests, ShallowFrames) /\ HandlesIdle
        /\ AdapterIdle /\ LocksIdle /\ CsIdle /\ StubsIdle
        /\ PrintfIdle

SpecLoad == LoadInit /\ [][Next]_vars

\* Calls of the import resolver.
ResolveInit ==
    ResolverInit /\ LoaderIdle /\ HandlesIdle /\ AdapterIdle /\ LocksIdle /\ CsIdle /\ StubsIdle
        /\ PrintfIdle

ResolveNext == ResolveImport

SpecResolve == ResolveInit /\ [][ResolveNext]_vars

\* Threads calling the shims that create and close handles.
ShimInit ==
    ResolverIdle /\ LoaderIdle /\ HandlesInit(1..NShimThreads) /\ AdapterIdle
        /\ LocksIdle /\ CsIdle /\ StubsIdle
        /\ PrintfIdle

\* A step of a thread that calls shims.
ShimNext ==
    \E t \in 1..NShimThreads :
        \/ CreateFileOpen(t)
        \/ CreateFileOpenFails(t)
        \/ AllocHandleFetch(t)
        \/ AllocHandleInsert(t)
        \/ CloseHandleFound(t)
        \/ CloseHandleClose(t)
        \/ CloseHandleAbsent(t)
        \/ CreateFileMappingFound(t)
        \/ CreateFileMappingAbsent(t)
        \/ CreateFileMappingFetch(t)
        \/ CreateFileMappingInsert(t)
        \/ TlsAllocKey(t)
        \/ TlsAllocFails(t)
        \/ TlsAllocFetch(t)
        \/ TlsAllocInsert(t)
        \/ TlsFreeFound(t)
        \/ TlsFreeAbsent(t)
        \/ CryptCreateHashFetch(t)
        \/ CryptCreateHashInsert(t)
        \/ CryptDestroyHash(t)

SpecHandles == ShimInit /\ [][ShimNext]_vars

\* Threads calling the methods of one blob adapter.
MethodInit ==
    ResolverIdle /\ LoaderIdle /\ HandlesIdle /\ AdapterInit(1..NAdapterThreads)
        /\ LocksIdle /\ CsIdle /\ StubsIdle
        /\ PrintfIdle

\* A step of a thread that calls adapter methods.
MethodNext ==
    \E t \in 1..NAdapterThreads :
        \/ AdapterAddRef(t)
        \/ AdapterRelease(t)
        \/ AdapterReleaseDrop(t)
        \/ AdapterQueryInterface(t)

SpecAdapter == MethodInit /\ [][MethodNext]_vars

\* Threads calling the shims that look a handle up under a lock.
LockInit ==
    ResolverIdle /\ LoaderIdle /\ HandlesIdle /\ AdapterIdle
        /\ LocksInit(1..NLockThreads) /\ CsIdle /\ StubsIdle
        /\ PrintfIdle

\* A step of a thread inside such a shim.
LockNext ==
    \E t \in 1..NLockThreads :
        \/ ShimCall(t)
        \/ GuardTaken(t)
        \/ GuardDropped(t)
        \/ CallEntered(t)
        \/ CallReturned(t)
        \/ ShimReturn(t)

SpecLocks == LockInit /\ [][LockNext]_vars

\* Threads of the image entering and leaving critical sections.
CriticalInit ==
    ResolverIdle /\ LoaderIdle /\ HandlesIdle /\ AdapterIdle /\ LocksIdle
        /\ CsInit(1..NCsThreads) /\ StubsIdle
        /\ PrintfIdle

\* A step of a thread that uses critical sections.
CriticalNext ==
    \E t \in 1..NCsThreads :
        \/ EnterCriticalSection(t)
        \/ MutexLocked(t)
        \/ LeaveCriticalSection(t)

SpecCritical == CriticalInit /\ [][CriticalNext]_vars

\* The image calling shims that perform no operation.
StubInit ==
    ResolverIdle /\ LoaderIdle /\ HandlesIdle /\ AdapterIdle /\ LocksIdle
        /\ CsIdle /\ StubsInit /\ PrintfIdle

StubNext ==
    \/ MapViewOfFileEx
    \/ StubInvoke
    \/ StubPanic
    \/ StubReturn

SpecStubs == StubInit /\ [][StubNext]_vars

\* The image calling the formatter.
FormatInit ==
    ResolverIdle /\ LoaderIdle /\ HandlesIdle /\ AdapterIdle /\ LocksIdle
        /\ CsIdle /\ StubsIdle /\ PrintfInit

FormatNext == Vsnprintf

SpecPrintf == FormatInit /\ [][FormatNext]_vars

(***************************************************************************)
(* Properties of the one-time initialisation (specification Spec).         *)
(***************************************************************************)

\* The places of load_dll.
LoadPlaces ==
    { "ld_read", "ld_parse", "ld_mmap", "ld_header", "ld_sections", "ld_relocs",
      "ld_imports", "ld_exports", "ld_protect", "ld_tib", "ld_attach",
      "in_dllmain", "ld_getfn" }

\* The places of an entry point after init() has returned.
PastInit == {"dispatch", "foreign", "ret"}

\* C1: however many threads make their first entry-point call at once,
\* load_dll completes at most once (and at most one thread is ever inside
\* it), every caller whose init() has returned holds the one outcome the
\* OnceLock stores, and an entry point calls into the image only when that
\* stored outcome is the loaded state, through the pointer the state holds.
C1_InitOnce ==
    /\ loadRuns + Cardinality({t \in DOMAIN pc : pc[t] \in LoadPlaces}) <= 1
    /\ (State.tag # "uninit") = (loadRuns = 1)
    /\ \A t \in DOMAIN pc :
        /\ pc[t] \in PastInit =>
              /\ State.tag # "uninit"
              /\ seen[t] = State
        /\ pc[t] = "foreign" =>
              /\ State.tag = "ok"
              /\ callee[t] = State.fns[fn[t]]

\* C1's case: two threads, each in its first call, both inside the image
\* after one run of load_dll.
C1_Witness ==
    /\ ncalls = 2
    /\ loadRuns = 1
    /\ \A t \in DOMAIN pc : pc[t] = "foreign" /\ seen[t] = State

\* C2: once the stored outcome is an error, no step changes it, no step
\* reads the file, maps an image or calls the image's entry point, no thread
\* enters load_dll, and an entry point that leaves its dispatch returns
\* E_FAIL without calling into the image.
C2_FailureCached ==
    [][State.tag = "err" =>
          /\ State' = State
          /\ loadRuns' = loadRuns
          /\ reads' = reads
          /\ maps' = maps
          /\ attaches' = attaches
          /\ \A t \in DOMAIN pc :
              /\ pc'[t] \notin LoadPlaces
              /\ pc'[t] # "foreign"
              /\ (pc[t] = "dispatch" /\ pc'[t] # "dispatch") =>
                    (pc'[t] = "ret" /\ result'[t] = E_FAIL)]_vars

\* C2's case: load_dll failed on a missing export, and by the third
\* entry-point call of two threads a caller has been handed E_FAIL.
C2_Witness ==
    /\ State.tag = "err"
    /\ State.err = "FunctionNotFound"
    /\ loadRuns = 1
    /\ reads = 1
    /\ ncalls = 2
    /\ outcomes # {}
    /\ \E t \in DOMAIN pc : pc[t] = "ret" /\ result[t] = E_FAIL /\ seen[t] = State

\* C3: in one run the file is read at most once, an image is mapped at most
\* once and stays mapped, and the image's entry point is called at most
\* once, with the reason code for process attach and the base of the mapping
\* as the module handle.
C3_LoadStepsOnce ==
    /\ reads <= 1
    /\ maps <= 1
    /\ attaches <= 1
    /\ (maps = 1) = mapped
    /\ attaches = 1 =>
          /\ mapped
          /\ attachArgs = [hinst |-> map_base, fdw_reason |-> DLL_PROCESS_ATTACH]
    /\ State.tag = "ok" => (mapped /\ State.mmap = map_base)

\* C3's case: the image is loaded and attached, and every call the run
\* allows has been made and has returned.
C3_Witness ==
    /\ State.tag = "ok"
    /\ ncalls = MaxCalls
    /\ \A t \in DOMAIN pc : pc[t] = "idle"
    /\ reads = 1
    /\ maps = 1
    /\ attaches = 1

(***************************************************************************)
(* Properties of the import resolver (specification SpecResolve) and of    *)
(* the image loader (specification SpecLoad).                              *)
(***************************************************************************)

\* The symbols the catalog holds for a module family, the family being named
\* by one of its module names without the ".dll" suffix.
CatalogOf(m) ==
    IF m \in MsvcrtModules THEN MsvcrtSymbols
    ELSE IF m \in Kernel32Modules THEN Kernel32Symbols
    ELSE IF m \in Advapi32Modules THEN Advapi32Symbols
    ELSE IF m = "ntdll" THEN NtdllSymbols
    ELSE IF m = "rpcrt4" THEN Rpcrt4Symbols
    ELSE {}

\* The pair (dll, name) has a catalog entry: dll is a module name of a family,
\* with or without ".dll" suffixes, and the family's catalog holds name.
InCatalog(dll, name) ==
    \E m \in KnownModules, n \in 0..(MaxDllSuffix + 1) :
        /\ dll = WithSuffix(m, n)
        /\ name \in CatalogOf(m)

\* C5: for every (module, symbol) pair without a catalog entry the resolver
\* returns the sentinel 0xDEADBEEF: not a null pointer, not the address of
\* an implemented shim.  A pair with an entry gets a shim address.
C5_SentinelForUnknown ==
    rPc = "done" =>
        IF InCatalog(rDll, rName)
        THEN rAddr \in ShimAddresses
        ELSE /\ rAddr = SENTINEL
             /\ rAddr # NULL
             /\ rAddr \notin ShimAddresses

\* C5's case: a symbol name no family implements has been resolved against
\* a module of a known family.
C5_Witness ==
    /\ rPc = "done"
    /\ rDll = "advapi32.dll"
    /\ rName = "CryptGenRandom"
    /\ ~InCatalog(rDll, rName)
    /\ rAddr = SENTINEL

\* The places of load_dll after the relocation phase.
AfterRelocation ==
    {"ld_imports", "ld_exports", "ld_protect", "ld_tib", "ld_attach", "in_dllmain",
     "ld_getfn"}

\* The slot of the k-th thunk of a descriptor.
SlotOf(desc, k) == desc.first_thunk + PtrSize * (k - 1)

\* The 8 bytes at an offset of the mapping are the given bytes.
Holds(offset, bytes) ==
    \A b \in 1..PtrSize : mem[offset + b - 1] = bytes[b]

\* C4: when the image's entry point is called for attach, every import of
\* every import descriptor whose thunk list reads, and whose slot lies
\* inside the mapping, has its slot holding one resolved address: that of an
\* implemented shim or the sentinel; and the section protections are applied.
C4_ImportsBoundAtAttach ==
    \A t \in DOMAIN pc : pc[t] = "in_dllmain" =>
        /\ protCalls = FixPermissions(image, << >>, 1)
        /\ \A d \in DOMAIN image.imports :
              LET desc == image.imports[d] IN
              desc.thunks_ok =>
                  \A k \in DOMAIN desc.thunks :
                      SlotOf(desc, k) + PtrSize <= image.size_of_image =>
                          \E f \in ShimAddresses \cup {SENTINEL} :
                              Holds(SlotOf(desc, k), ImportBytes(f))

\* C6: after the relocation phase every 64-bit absolute relocation entry
\* whose stored value V reads and whose 8 bytes lie inside the mapping holds
\* M + (V - P) at its location, M being the base of the mapping and P the
\* preferred base; and the value differs from the one any other base of the
\* mapping gives.
C6_Dir64Rebased ==
    (\E t \in DOMAIN pc : pc[t] \in AfterRelocation) =>
        \A n \in DOMAIN image.reloc_blocks :
            \A e \in DOMAIN image.reloc_blocks[n] :
                LET reloc == image.reloc_blocks[n][e]
                    V == reloc.addend
                    P == image.image_base
                    M == map_base
                IN  (/\ reloc.typ = IMAGE_REL_BASED_DIR64
                     /\ reloc.addend_ok
                     /\ reloc.virtual_address + PtrSize <= image.size_of_image) =>
                        /\ Holds(reloc.virtual_address,
                                 RelocBytes((M + (V - P)) % AddrMod))
                        /\ \A M2 \in MapBases \ {M} :
                              ~Holds(reloc.virtual_address,
                                     RelocBytes((M2 + (V - P)) % AddrMod))

\* C6's case: an image with two 64-bit entries, one whose stored value lies
\* below the preferred base, is relocated to the highest base of the model.
C6_Witness ==
    /\ \E t \in DOMAIN pc : pc[t] = "ld_imports"
    /\ map_base = 250
    /\ image.reloc_blocks =
           << <<Reloc(IMAGE_REL_BASED_DIR64, 24, PreferredBase + 8)>>,
              <<Reloc(IMAGE_REL_BASED_DIR64, 32, 3)>> >>
    /\ Holds(24, RelocBytes(2))
    /\ Holds(32, RelocBytes(237))

(***************************************************************************)
(* Properties of the handle tables (specification SpecHandles).            *)
(***************************************************************************)

\* The values of a counter's log.
Values(log) == {log[i] : i \in DOMAIN log}

\* A log of counter values starts at the counter's initial value and every
\* value is strictly greater than the ones before it.
Ascending(log, first) ==
    /\ log # << >> => log[1] = first
    /\ \A i, j \in DOMAIN log : i < j => log[i] < log[j]

\* The close shims.
CloseOps == {"CloseHandle", "TlsFree", "CryptDestroyHash"}

\* C7: whatever the interleaving, once every file handle that CreateFileA /
\* CreateFileW returned has had a CloseHandle call complete on it, the file
\* handle table is empty.
C7_AllClosedTableEmpty ==
    (/\ returned.file \subseteq closed.file
     /\ \A t \in DOMAIN hpc : hpc[t] \notin {"cf_fetch", "cf_insert"})
        => DOMAIN HANDLE_MAP = {}

\* C7's case: two file handles were allocated and each was closed.
C7_Witness ==
    /\ Cardinality(returned.file) = 2
    /\ closed.file = returned.file
    /\ \A t \in DOMAIN hpc : hpc[t] = "idle"
    /\ DOMAIN HANDLE_MAP = {}
    /\ openFds = {}

\* C8: a close call (CloseHandle on a file handle, TlsFree, CryptDestroyHash)
\* on a handle that is no longer in its table returns the not-found status,
\* FALSE, and not the status of a successful close.
C8_SecondCloseNotFound ==
    \A t \in DOMAIN lastOp :
        (/\ lastOp[t].op \in CloseOps
         /\ lastOp[t].h \in returned.file \cup returned.tls \cup returned.crypto
         /\ ~lastOp[t].found)
            => lastOp[t].ret = 0

\* C9: the values taken from the file/mapping counter start at 0x1000 and
\* those taken from the hash counter at 0x2000, every value is strictly
\* greater than the ones the same counter gave before, the counter stays
\* above all of them, so no two allocations (concurrent ones included) hold
\* the same value and a freed value is not handed out again.
C9_HandlesAscend ==
    /\ Ascending(issued.handle, NEXT_HANDLE_INIT)
    /\ Ascending(issued.crypto, CRYPTO_NEXT_INIT)
    /\ \A v \in Values(issued.handle) : NEXT_HANDLE_INIT <= v /\ v < NEXT_HANDLE
    /\ \A v \in Values(issued.crypto) : CRYPTO_NEXT_INIT <= v /\ v < CRYPTO_NEXT
    /\ returned.file \cup returned.mapping \subseteq Values(issued.handle)
    /\ returned.file \cap returned.mapping = {}
    /\ returned.crypto \subseteq Values(issued.crypto)
    /\ \A t, u \in DOMAIN hpc :
          (/\ t # u
           /\ hpc[t] \in {"cf_insert", "fm_insert", "cc_insert"}
           /\ hpc[u] \in {"cf_insert", "fm_insert", "cc_insert"})
              => harg[t] # harg[u]
    /\ \A t \in DOMAIN hpc :
          hpc[t] \in {"cf_insert", "fm_insert"} =>
              harg[t] \notin returned.file \cup returned.mapping \cup closed.file
    /\ \A t \in DOMAIN hpc :
          hpc[t] = "cc_insert" => harg[t] \notin returned.crypto \cup closed.crypto

\* C9's case: the first file handle has been closed, and two threads hold
\* values the counter gave them at the same time.
C9_Witness ==
    /\ NEXT_HANDLE_INIT \in closed.file
    /\ Len(issued.handle) = 3
    /\ \A t \in DOMAIN hpc : hpc[t] = "cf_insert"
    /\ \E t, u \in DOMAIN hpc : harg[t] < harg[u]

\* C10: a handle on which a close/destroy call has completed (CloseHandle
\* for file and mapping handles, TlsFree for slots, CryptDestroyHash for
\* hashes) is no longer in the table its create shim inserted it into.
C10_ClosedHandleRemoved ==
    /\ \A h \in closed.file : h \notin DOMAIN HANDLE_MAP
    /\ \A h \in closed.mapping : h \notin DOMAIN MMAP_MAP
    /\ \A h \in closed.tls : h \notin DOMAIN TLS_SLOTS
    /\ \A h \in closed.crypto : h \notin DOMAIN CRYPTO_HANDLES

(***************************************************************************)
(* Reference counts of an adapter.                                         *)
(***************************************************************************)

\* The methods called so far, in order.
Methods == [i \in 1..Len(refCalls) |-> refCalls[i][1]]

\* What they returned, in order.
Counts == [i \in 1..Len(refCalls) |-> refCalls[i][2]]

\* A Release has returned 0.
ReleasedToZero == \E i \in 1..Len(refCalls) : refCalls[i] = <<"Release", 0>>

\* C11: on an adapter around an object that counts one reference, AddRef,
\* AddRef, Release, Release, Release with no other method called return
\* 2, 3, 2, 1, 0; the adapter is
\* dropped at most once, only after a Release whose inner Release returned
\* 0, never while the inner count is above 0, and it is dropped once the
\* Release that returned 0 has finished.
C11_AdapterRefCount ==
    /\ (Methods = <<"AddRef", "AddRef", "Release", "Release", "Release">>
          /\ nmethods = Len(refCalls))
        => Counts = <<2, 3, 2, 1, 0>>
    /\ drops <= 1
    /\ drops = 1 => ReleasedToZero
    /\ refcount > 0 => boxed /\ drops = 0
    /\ (ReleasedToZero /\ \A t \in DOMAIN apc : apc[t] = "idle")
        => ~boxed /\ drops = 1

\* The five refCalls have been made and the adapter is dropped.
C11_Witness ==
    /\ Methods = <<"AddRef", "AddRef", "Release", "Release", "Release">>
    /\ Counts = <<2, 3, 2, 1, 0>>
    /\ drops = 1
    /\ ~boxed

(***************************************************************************)
(* The entry points' arguments, outputs and adapters.                      *)
(***************************************************************************)

\* The places where a thread runs code of the image: its entry point at
\* attach, an exported function, a method an adapter forwards.
ImagePlaces == {"in_dllmain", "foreign", "method"}

\* C12: on every thread, setup_tib has completed before the thread is inside
\* code of the image: the attach call, an exported function called by an
\* entry point, or a method forwarded by an adapter, also on a thread that
\* never called an entry point.
C12_TibBeforeImageCode ==
    \A t \in DOMAIN pc : pc[t] \in ImagePlaces => tibInit[t]

\* The thread is inside a call of an entry point.
InCall(t) == pc[t] \notin {"idle", "method"}

\* The thread has called an entry point and is back from it.
BackFromCall(t) == pc[t] \in {"idle", "method"} /\ fn[t] # ""

\* C13: a call with a non-null include handler allocates exactly one include
\* adapter, which wraps the handler and is what the image's function is
\* given; the adapter is not dropped before the image's function has returned
\* and is dropped exactly once when the entry point has returned, also when
\* init failed and the image was not called; a call with a null handler
\* allocates nothing and forwards null.
C13_IncludeAdapterOnePerCall ==
    \A t \in DOMAIN pc :
        /\ pInclude[t] = NullPtr =>
             /\ wrapped_include[t] = NullPtr
             /\ forwarded[t] = NullPtr
             /\ boxed_includes[t] = 0
             /\ freed_includes[t] = 0
        /\ pInclude[t] # NullPtr =>
             /\ boxed_includes[t] = 1
             /\ wrapped_include[t].abi = "win64"
             /\ wrapped_include[t].vtable = "INCLUDE_WRAPPER_VTABLE"
             /\ wrapped_include[t].obj = pInclude[t].obj
             /\ pc[t] = "foreign" => forwarded[t] = wrapped_include[t]
             /\ InCall(t) => freed_includes[t] = 0
             /\ BackFromCall(t) => freed_includes[t] = 1

\* A call with an include handler has returned E_FAIL because init failed,
\* and its adapter is dropped.
C13_Witness ==
    \E t \in DOMAIN pc :
        /\ BackFromCall(t)
        /\ pInclude[t] # NullPtr
        /\ seen[t].tag = "err"
        /\ forwarded[t] = NullPtr
        /\ boxed_includes[t] = 1
        /\ freed_includes[t] = 1

\* The required exports the container's image lacks.
MissingExports == RequiredExportNames \ {e.name : e \in image.exports}

\* C14: when a required export is absent, load_dll, once past the mapping,
\* returns the error FunctionNotFound naming an absent symbol; the state
\* stored is never partly filled: a stored Ok state holds the address of
\* every required export and the image lacks none.
C14_MissingExportIsInitError ==
    /\ (MissingExports # {} /\ State.tag # "uninit") =>
          /\ State.tag = "err"
          /\ State.fns = NoFns
          /\ State.err \notin {"Io", "ParseError", "LoadError"} =>
                State.err = "FunctionNotFound" /\ State.what \in MissingExports
    /\ State.tag = "ok" =>
          /\ MissingExports = {}
          /\ DOMAIN State.fns = RequiredExportNames
          /\ \A n \in RequiredExportNames :
                State.fns[n] = BuildExports(image, map_base)[n]

\* The load of an image that lacks D3DCompile2 and D3DSetBlobPart has
\* returned.
C14_Witness ==
    /\ MissingExports = {"D3DCompile2", "D3DSetBlobPart"}
    /\ State = Err("FunctionNotFound", "D3DCompile2")
    /\ attaches = 1
    /\ loadRuns = 1

\* C15: two completed calls of the same entry point with the same input have
\* returned the same status and the same diagnostics.
C15_SameInputSameOutcome ==
    \A a \in outcomes : \A b \in outcomes :
        (a.fn = b.fn /\ a.input = b.input) =>
            a.status = b.status /\ a.errors = b.errors

\* Two calls have returned and they passed the same input to the same entry
\* point, which the image rejected with diagnostics.
C15_Witness ==
    /\ ncalls = 2
    /\ \A t \in DOMAIN pc : pc[t] = "idle"
    /\ \E o \in outcomes :
        /\ outcomes = {o}
        /\ o.status = E_FAIL
        /\ o.errors # NullPtr

C17_FailurePassedOn ==
    \A t \in DOMAIN pc :
        (BackFromCall(t) /\ seen[t].tag = "ok") =>
            LET f == Foreign(fn[t], input[t])
            IN  /\ result[t] = f.status
                /\ f.errors # NullPtr =>
                      /\ ppErrorMsgs[t] # NullPtr
                      /\ IsHostAdapter(ppErrorMsgs[t])
                      /\ ppErrorMsgs[t].obj = f.errors.obj
                      /\ Len(ppErrorMsgs[t].obj) > 0
                /\ ppErrorMsgs[t] = NullPtr => f.errors = NullPtr

\* A compilation of the bad source has returned the image's failure with its
\* diagnostics.
C17_Witness ==
    \E t \in DOMAIN pc :
        /\ BackFromCall(t)
        /\ seen[t].tag = "ok"
        /\ fn[t] = "D3DCompile"
        /\ input[t] = "bad"
        /\ result[t] = E_FAIL
        /\ IsHostAdapter(ppErrorMsgs[t])

\* The interface pointers the host has been handed.
HostPointers ==
    {ppv} \cup {ppCode[t] : t \in DOMAIN ppCode}
          \cup {ppErrorMsgs[t] : t \in DOMAIN ppErrorMsgs}

\* C18: every non-null interface pointer handed to the host, as an output of
\* an entry point or through an output parameter of an adapter method such
\* as QueryInterface's ppv, is an adapter with the host's convention, never
\* the image's own pointer.
C18_HostSeesOnlyAdapters ==
    \A p \in HostPointers : p = NullPtr \/ IsHostAdapter(p)

(***************************************************************************)
(* Locks and critical sections.                                            *)
(***************************************************************************)

\* The thread holds a guard of some table.
HoldsGuard(t) == \E l \in DOMAIN guards : \E g \in guards[l] : g[1] = t

\* C19: no thread is inside close, pthread_key_delete, pthread_getspecific,
\* pthread_setspecific, mmap or the hash computation while it holds a guard
\* of a handle table.
C19_NoCallUnderLock ==
    \A t \in DOMAIN inSyscall : inSyscall[t] # "" => ~HoldsGuard(t)

\* The thread is inside the section: an EnterCriticalSection of it has
\* returned and the matching LeaveCriticalSection has not been called.
Inside(t, s) == csDepth[t][s] > 0

\* C20: no two threads are inside the same critical section, and a thread
\* that waits in EnterCriticalSection waits for another thread: it never
\* waits for a section it is itself inside (recursive entry returns).
C20_CriticalSections ==
    /\ \A s \in DOMAIN csOwner : \A t \in DOMAIN csPc : \A u \in DOMAIN csPc :
          (Inside(t, s) /\ Inside(u, s)) => t = u
    /\ \A t \in DOMAIN csPc :
          csPc[t] = "entering" => ~Inside(t, csArg[t])

(***************************************************************************)
(* The thread environment.                                                 *)
(***************************************************************************)

\* The thread is inside load_dll: it runs the OnceLock's initialiser.
InLoadDll(t) == onceRunner = t

\* The thread has passed setup_tib in init() and stands before or in
\* STATE.get_or_init.
AtOnceLock(t) == pc[t] = "get_or_init"

\* The step is one of thread t's own steps through setup_tib.
OwnSetupStep(t) ==
    /\ pc[t] \in {"init", "ld_tib"}
    /\ pc'[t] # pc[t]
    /\ \A u \in DOMAIN pc \ {t} : pc'[u] = pc[u]

\* C21: a thread's environment setup waits for nothing: a thread that has
\* entered init() can always take its setup_tib step, whatever the state of
\* the module-init OnceLock and of the other threads; a thread that stands at
\* the OnceLock has its own setup behind it; and a thread's control block,
\* flag and GS base change only in that thread's own setup_tib step.
C21_TibSetupIndependent ==
    /\ [](\A t \in DOMAIN pc :
            /\ At(t, "init") => ENABLED SetupTib(t)
            /\ AtOnceLock(t) =>
                  tibInit[t] /\ TIB[t].teb_self = tib_ptr(t)
                             /\ gs_base[t] = tib_ptr(t))
    /\ [][\A t \in DOMAIN pc :
            (TIB'[t] # TIB[t] \/ tibInit'[t] # tibInit[t]
                \/ gs_base'[t] # gs_base[t] \/ prctls'[t] # prctls[t])
               => OwnSetupStep(t)]_vars

\* One thread is inside load_dll and another, its setup done, waits at the
\* OnceLock.
C21_Witness ==
    \E t, u \in DOMAIN pc :
        /\ t # u
        /\ InLoadDll(t)
        /\ AtOnceLock(u) /\ tibInit[u]
        /\ OnceEntry(State, onceRunner) = "wait"

\* What the first setup_tib of thread t writes when its local lies at stack_ptr.
FirstTib(t, stack_ptr) ==
    [ZeroTib EXCEPT !.stack_base = AlignDown(stack_ptr + StackReach),
                    !.stack_limit = AlignDown(stack_ptr - StackReach),
                    !.teb_self = tib_ptr(t),
                    !.process_id = process_id,
                    !.thread_id = gettid(t)]

\* C22: setup_tib is idempotent per thread: once a thread's flag is set, no
\* later step, a later setup_tib call of the thread included, changes the
\* thread's control block, sets its GS base again or clears the flag; the
\* block holds what one first call wrote (stack bounds, the block's own
\* address as self-pointer, process id, thread id) and the register was set
\* exactly once.
C22_SetupTibIdempotent ==
    /\ [](\A t \in DOMAIN pc :
            tibInit[t] =>
               /\ \E d \in depths : TIB[t] = FirstTib(t, StackTop(t) - d)
               /\ gs_base[t] = tib_ptr(t)
               /\ prctls[t] = 1)
    /\ [][\A t \in DOMAIN pc :
            tibInit[t] =>
               /\ tibInit'[t]
               /\ TIB'[t] = TIB[t]
               /\ gs_base'[t] = gs_base[t]
               /\ prctls'[t] = prctls[t]]_vars

\* A thread has called setup_tib a second time, from load_dll, after the
\* call in init().
C22_Witness ==
    \E t \in DOMAIN pc :
        At(t, "ld_attach") /\ tibInit[t] /\ prctls[t] = 1

(***************************************************************************)
(* Module families of the resolver.                                        *)
(***************************************************************************)

\* The module names of each family, by the family's canonical module name.
Canonical ==
    [msvcrt |-> MsvcrtModules, kernel32 |-> Kernel32Modules,
     advapi32 |-> Advapi32Modules, ntdll |-> {"ntdll"}, rpcrt4 |-> {"rpcrt4"}]

\* The module name is an alias of the family, with or without ".dll".
AliasOf(dll, family) ==
    \E m \in Canonical[family], n \in 0..MaxDllSuffix : dll = WithSuffix(m, n)

\* C23: every alias of a module family, with or without a trailing ".dll",
\* resolves every symbol to the address the family's canonical module name
\* resolves it to (the api-ms-win-core-* aliases as kernel32, the
\* api-ms-win-crt-*, msvcr*, ucrtbase and vcruntime140 aliases as msvcrt, the
\* registry and security aliases as advapi32); a module name outside every
\* family resolves every symbol to the sentinel.
C23_FamilyNormalization ==
    rPc = "done" =>
        /\ \A family \in DOMAIN Canonical :
              /\ family \in Canonical[family]
              /\ AliasOf(rDll, family) => rAddr = resolve_import(family, rName)
        /\ (\A family \in DOMAIN Canonical : ~AliasOf(rDll, family))
              => rAddr = SENTINEL

\* An alias with the suffix has been resolved to a shim of its family.
C23_Witness ==
    /\ rPc = "done"
    /\ rDll = "api-ms-win-core-heap-l1-1-0.dll"
    /\ rName = "HeapAlloc"
    /\ rAddr = "imports::kernel32::HeapAlloc"
    /\ rAddr = resolve_import("kernel32", rName)

(***************************************************************************)
(* Relocation entries of other kinds.                                      *)
(***************************************************************************)

\* The image without its relocation entries of kinds other than the 64-bit
\* absolute one, the blocks staying where they are.
Dir64Only(img) ==
    [img EXCEPT !.reloc_blocks =
        [n \in DOMAIN img.reloc_blocks |->
            SelectSeq(img.reloc_blocks[n],
                      LAMBDA reloc : reloc.typ = IMAGE_REL_BASED_DIR64)]]

\* The byte lies in the 8 bytes of a 64-bit absolute entry of the image.
InDir64Target(img, b) ==
    \E n \in DOMAIN img.reloc_blocks :
        \E e \in DOMAIN img.reloc_blocks[n] :
            LET reloc == img.reloc_blocks[n][e] IN
            /\ reloc.typ = IMAGE_REL_BASED_DIR64
            /\ b >= reloc.virtual_address
            /\ b < reloc.virtual_address + PtrSize

\* The image has an entry of another kind.
HasOtherKind(img) ==
    \E n \in DOMAIN img.reloc_blocks :
        \E e \in DOMAIN img.reloc_blocks[n] :
            img.reloc_blocks[n][e].typ # IMAGE_REL_BASED_DIR64

\* C24: a relocation entry of a kind other than the 64-bit absolute one is
\* ignored: the relocation phase leaves the mapping as it would without those
\* entries, the entries and blocks after them being processed all the same,
\* and it changes no byte outside the 8 bytes of a 64-bit absolute entry.
C24_OtherKindsIgnored ==
    [][\A t \in DOMAIN pc :
          (pc[t] = "ld_relocs" /\ pc'[t] = "ld_imports") =>
              /\ mem' = ApplyRelocations(Dir64Only(image), mem, map_base, 1)
              /\ \A b \in DOMAIN mem :
                    mem'[b] # mem[b] => InDir64Target(image, b)]_vars

\* An image whose first block holds an entry of another kind and whose second
\* block holds a 64-bit absolute one has been relocated: the bytes of the
\* first are not those of a relocated address, the second is patched.
C24_Witness ==
    /\ \E t \in DOMAIN pc : pc[t] = "ld_imports"
    /\ image.reloc_blocks =
           << <<Reloc(3, 16, PreferredBase)>>,
              <<Reloc(IMAGE_REL_BASED_DIR64, 24, PreferredBase + 8)>> >>
    /\ HasOtherKind(image)
    /\ \A b \in 16..23 : mem[b].kind # "rel"
    /\ Holds(24, RelocBytes(NewAddr(PreferredBase + 8, image.image_base, map_base)))

(***************************************************************************)
(* Shims without an implementation.                                        *)
(***************************************************************************)

\* C25: every shim that has no real implementation ends the process when the
\* image invokes it and never returns to its caller: no call of such a shim
\* is among the calls that returned, and none returned a success value as if
\* the operation had been performed (a view reported unmapped stays mapped).
C25_StubsAbort ==
    /\ \A i \in DOMAIN stLog : stLog[i].name \notin StubShims
    /\ \A i \in DOMAIN stLog :
          (stLog[i].name = "UnmapViewOfFile" /\ stLog[i].ret # 0)
             => stLog[i].arg \notin views

(***************************************************************************)
(* The printf-style formatter.                                             *)
(***************************************************************************)

\* Format text made of whole items: literals and supported conversions.
RECURSIVE WholeItems(_)
WholeItems(n) ==
    IF n = 0 THEN {""}
    ELSE LET shorter == WholeItems(n - 1) IN
         shorter \cup {s \o item : s \in shorter,
                                   item \in {"a", "%d", "%s", "%c", "%ld"}}

\* The texts of whole items a format can begin with.
Prefixes == WholeItems(MaxFmtLen)

\* Conversions with a specifier that is not supported, by the number of "*"
\* they hold.
UnknownConversions ==
    {<<"%q", 0>>, <<"%lq", 0>>, <<"%.q", 0>>, <<"%*q", 1>>, <<"%.*q", 1>>,
     <<"%*lq", 1>>}

\* The argument list without the k arguments after the first n.
DropArgs(args, n, k) ==
    SubSeq(args, 1, n) \o SubSeq(args, n + k + 1, Len(args))

\* What the call of the state would have returned and written for the format
\* that lacks the unknown conversion u after pre, and the argument list that
\* lacks the arguments of its "*".
WithoutUnknown(pre, u, post) ==
    LET before == vsnprintf_core(FALSE, 100, pre, VarArgs).used IN
    vsnprintf_core(fNull, fCount, pre \o post, DropArgs(VarArgs, before, u[2]))

\* The call of the state reaches the text behind pre: the loop is entered
\* with written < max_write there.
Reaches(pre) ==
    /\ ~fNull /\ fCount > 0
    /\ vsnprintf_core(fNull, fCount, pre, VarArgs).ret < fCount - 1

\* C26 as stated: a conversion whose specifier is not supported writes no
\* output and consumes no argument, and the rest of the format is formatted
\* as if the conversion were not there, from the same arguments.
C26_UnknownSkippedNoArgument ==
    fPc = "done" =>
        \A k \in 0..Len(fFormat), u \in UnknownConversions :
            LET pre == SubSeq(fFormat, 1, k)
                n == k + Len(u[1])
            IN
            (/\ pre \in Prefixes
             /\ n <= Len(fFormat)
             /\ SubSeq(fFormat, k + 1, n) = u[1]) =>
                fOut = vsnprintf_core(fNull, fCount,
                                      pre \o SubSeq(fFormat, n + 1, Len(fFormat)),
                                      VarArgs)

\* C26, amended: a conversion whose specifier is not supported writes no
\* output and consumes no argument but those of a "*" width or precision in
\* it; the rest of the format is formatted as if the conversion and the
\* arguments of its "*" were not there, so that later conversions read their
\* own arguments.
C26_UnknownSkipped ==
    fPc = "done" =>
        \A k \in 0..Len(fFormat), u \in UnknownConversions :
            LET pre == SubSeq(fFormat, 1, k)
                n == k + Len(u[1])
            IN
            (/\ pre \in Prefixes
             /\ n <= Len(fFormat)
             /\ SubSeq(fFormat, k + 1, n) = u[1]) =>
                LET base == WithoutUnknown(pre, u,
                                           SubSeq(fFormat, n + 1, Len(fFormat)))
                IN  /\ fOut.ret = base.ret
                    /\ fOut.buf = base.buf
                    /\ fOut.stored = base.stored
                    /\ fOut.used =
                          base.used + (IF Reaches(pre) THEN u[2] ELSE 0)

\* An unknown conversion stood before a supported one: nothing was written
\* for it and the supported one read the first argument.
C26_Witness ==
    /\ fPc = "done"
    /\ fFormat = "%q%d"
    /\ fCount = 3 /\ ~fNull
    /\ fOut.ret = 2
    /\ fOut.buf[0] = "1" /\ fOut.buf[1] = "2" /\ fOut.buf[2] = "NUL"
    /\ fOut.used = 1

\* C29: called with a buffer and count > 0, vsnprintf_core stores at most
\* count bytes, all of them in the first count cells of the buffer, stores a
\* NUL at the index it returns and returns a value in 0..count - 1; called
\* with a null buffer or count = 0 it returns -1 and stores nothing.
C29_FormatterBounded ==
    fPc = "done" =>
        IF fNull \/ fCount = 0
        THEN fOut.ret = -1 /\ fOut.stored = 0 /\ fOut.buf = NoBuffer
        ELSE /\ fOut.stored <= fCount
             /\ fOut.ret \in 0..(fCount - 1)
             /\ fOut.buf[fOut.ret] = "NUL"
             /\ \A b \in DOMAIN fOut.buf :
                   b >= fCount => fOut.buf[b] = "untouched"
             /\ \A b \in 0..(fOut.ret - 1) :
                   fOut.buf[b] \notin {"NUL", "untouched"}

\* A string argument longer than the room left has been cut.
C29_Witness ==
    /\ fPc = "done"
    /\ fFormat = "a%s"
    /\ fCount = 3 /\ ~fNull
    /\ fOut.ret = 2
    /\ fOut.buf[0] = "a" /\ fOut.buf[1] = "x" /\ fOut.buf[2] = "NUL"
    /\ fOut.used = 1

\* The thread's Return step: it leaves "ret" for "idle".
EntryReturns(t) == pc[t] = "ret" /\ pc'[t] = "idle"

\* The value a failed call leaves in the host's cell of an output parameter:
\* null through a parameter that is not null, the cell as it was otherwise.
FailedCell(t, param, cell) ==
    IF param \in OutParams(fn[t]) \ outNull[t] THEN NullPtr ELSE cell

\* C27: once a thread has seen the initialization fail, its entry point never
\* runs a function of the image, and its return gives E_FAIL, stores null
\* through each output parameter that is not null, and stores through no
\* null output parameter.
C27_FailedInitReturnsEFail ==
    [][\A t \in DOMAIN pc :
          seen[t].tag = "err" =>
              /\ pc'[t] # "foreign"
              /\ callee'[t] = 0
              /\ EntryReturns(t) =>
                    /\ result[t] = E_FAIL
                    /\ ppCode'[t] = FailedCell(t, "ppCode", ppCode[t])
                    /\ ppErrorMsgs'[t] = FailedCell(t, "ppErrorMsgs", ppErrorMsgs[t])
                    /\ crashed' = crashed]_vars

C27_Witness ==
    \E t \in DOMAIN pc :
        /\ pc[t] = "idle"
        /\ seen[t].tag = "err"
        /\ fn[t] = "D3DCompile"
        /\ outNull[t] = {"ppErrorMsgs"}
        /\ result[t] = E_FAIL
        /\ ppCode[t] = NullPtr

\* MapViewOfFileEx: the descriptor it passes to mmap for a mapping handle of
\* the table.
mmap_fd(hFileMappingObject) == MMAP_MAP[hFileMappingObject].fd

\* C28: the descriptor stored for a mapping handle of the mapping table is
\* open, so MapViewOfFileEx never passes a closed descriptor to mmap.
C28_MappingDescriptorOpen ==
    \A h \in DOMAIN MMAP_MAP : mmap_fd(h) \in openFds

(***************************************************************************)
(* The writes of load_dll into the mapping.                                *)
(***************************************************************************)

\* The section's place in the mapping.
SectionOffset(img, n) == img.sections[n].address - img.image_base

\* The sections that are copied, being readable and wholly inside the
\* mapping, and cover byte b.
SectionWriters(img, b) ==
    {n \in DOMAIN img.sections :
        /\ img.sections[n].data_ok
        /\ SectionOffset(img, n) >= 0
        /\ SectionOffset(img, n) + img.sections[n].len <= img.size_of_image
        /\ b >= SectionOffset(img, n)
        /\ b < SectionOffset(img, n) + img.sections[n].len}

\* The greatest number of a set of numbers.
Greatest(S) == CHOOSE n \in S : \A k \in S : k <= n

\* The last pair <<n, e>> of a set of pairs, in the order of processing.
LastPair(S) ==
    CHOOSE p \in S : \A q \in S : q[1] < p[1] \/ (q[1] = p[1] /\ q[2] <= p[2])

\* The entries <<block, entry>> that are patched, being 64-bit absolute ones
\* with a readable addend and 8 bytes wholly inside the mapping, and cover b.
RelocWriters(img, b) ==
    {p \in UNION {{<<n, e>> : e \in DOMAIN img.reloc_blocks[n]} :
                     n \in DOMAIN img.reloc_blocks} :
        LET reloc == img.reloc_blocks[p[1]][p[2]] IN
        /\ reloc.typ = IMAGE_REL_BASED_DIR64
        /\ reloc.addend_ok
        /\ reloc.virtual_address + PtrSize <= img.size_of_image
        /\ b >= reloc.virtual_address
        /\ b < reloc.virtual_address + PtrSize}

\* The slot of the k-th thunk of a descriptor.
SlotAddress(desc, k) == desc.first_thunk + PtrSize * (k - 1)

\* The thunks <<descriptor, thunk>> that are bound, having a hint/name entry
\* and a slot wholly inside the mapping, and cover b.
SlotWriters(img, b) ==
    {p \in UNION {{<<d, k>> : k \in DOMAIN img.imports[d].thunks} :
                     d \in DOMAIN img.imports} :
        LET desc == img.imports[p[1]] IN
        /\ desc.thunks_ok
        /\ desc.thunks[p[2]].named
        /\ SlotAddress(desc, p[2]) + PtrSize <= img.size_of_image
        /\ b >= SlotAddress(desc, p[2])
        /\ b < SlotAddress(desc, p[2]) + PtrSize}

\* The mapping after the section copy: each byte is that of the last section
\* copied over it, or as it was.
SectionsCopied(img, m) ==
    [b \in 0..(img.size_of_image - 1) |->
        IF SectionWriters(img, b) = {} THEN m[b]
        ELSE LET n == Greatest(SectionWriters(img, b)) IN
             Cell("sec", b - SectionOffset(img, n), n, "")]

\* The mapping after the relocation phase.
RelocsPatched(img, m, base) ==
    [b \in 0..(img.size_of_image - 1) |->
        IF RelocWriters(img, b) = {} THEN m[b]
        ELSE LET p == LastPair(RelocWriters(img, b))
                 reloc == img.reloc_blocks[p[1]][p[2]]
             IN  RelocBytes(NewAddr(reloc.addend, img.image_base, base))
                     [b - reloc.virtual_address + 1]]

\* The mapping after the import phase.
SlotsBound(img, m) ==
    [b \in 0..(img.size_of_image - 1) |->
        IF SlotWriters(img, b) = {} THEN m[b]
        ELSE LET p == LastPair(SlotWriters(img, b))
                 desc == img.imports[p[1]]
             IN  ImportBytes(resolve_import(DllName(desc), desc.thunks[p[2]].name))
                     [b - SlotAddress(desc, p[2]) + 1]]

\* The image has a section, a relocation entry or an import slot that crosses
\* the end of the mapping.
CrossesEnd(img) ==
    \/ \E n \in DOMAIN img.sections :
          SectionOffset(img, n) + img.sections[n].len > img.size_of_image
    \/ \E n \in DOMAIN img.reloc_blocks : \E e \in DOMAIN img.reloc_blocks[n] :
          img.reloc_blocks[n][e].virtual_address + PtrSize > img.size_of_image
    \/ \E d \in DOMAIN img.imports : \E k \in DOMAIN img.imports[d].thunks :
          SlotAddress(img.imports[d], k) + PtrSize > img.size_of_image

\* C30: the mapping has the bytes 0 .. size_of_image - 1 and the section copy,
\* the relocation phase and the import phase of load_dll write only whole
\* items that lie inside it: each byte afterwards is that of the last item
\* wholly inside the mapping that covers it, or untouched; an item that
\* crosses the end writes nothing and the items after it are processed.
C30_WritesInsideMapping ==
    [][\A t \in DOMAIN pc :
          /\ (pc[t] = "ld_sections" /\ pc'[t] = "ld_relocs") =>
                mem' = SectionsCopied(image, mem)
          /\ (pc[t] = "ld_relocs" /\ pc'[t] = "ld_imports") =>
                mem' = RelocsPatched(image, mem, map_base)
          /\ (pc[t] = "ld_imports" /\ pc'[t] = "ld_exports") =>
                mem' = SlotsBound(image, mem)]_vars

\* The image whose first descriptor has a slot behind the end of the mapping
\* has its imports bound: the slot at 48 and the next descriptor's slot at 32
\* are written.
C30_Witness ==
    /\ \E t \in DOMAIN pc : pc[t] = "ld_exports"
    /\ CrossesEnd(image)
    /\ Len(image.imports) = 2
    /\ mem[48].kind = "imp"
    /\ mem[32].kind = "imp"
    /\ DOMAIN mem = 0..(image.size_of_image - 1)

====
